---- MODULE Spec2Model ----
(***************************************************************************)
(* CardPT: the no-limit hold'em betting engine (src/engine/engine.ts) and  *)
(* the gateway decision pipeline (proposeDecision, enforceSemanticGate).   *)
(*                                                                         *)
(* The engine's closure variables `state`, `events` and `actionHistory`    *)
(* are the variables of the same names.  Every engine function that        *)
(* mutates them is an operator on a context [state, events, error]; a      *)
(* thrown Error is the context with a non-empty `error`, carrying whatever *)
(* had been mutated before the throw.  `preHandTotal` is a history         *)
(* variable: the total of the six stacks when the current hand was set up, *)
(* before its blinds were posted; `legalRun` is a history variable too:    *)
(* whether every call that changed the engine so far was an entry of       *)
(* getLegalActions() and returned normally.                                *)
(*                                                                         *)
(* One call of the gateway's proposeDecision is `params` (its arguments),  *)
(* `pc` (idle, awaiting the adapter, returned or thrown), `result` (what   *)
(* it returned), `adapterCalls` (how often adapter.invoke was called) and  *)
(* `logged` (what the call has written to the console so far).             *)
(*                                                                         *)
(* Cards are named by their position 1..52 in the shuffled deck of the     *)
(* hand; the strength evaluate7 gives a seat at showdown is an input of    *)
(* the step (it is fixed by the seed, which the model does not interpret). *)
(***************************************************************************)
EXTENDS Integers, Sequences, FiniteSets, TLC

VARIABLES state, events, actionHistory, preHandTotal, legalRun,
          params, pc, result, adapterCalls, logged,
          turn, seatSettings, pageConfig, llmState, requests, lastApply,
          snapshot

engineVars == <<state, events, actionHistory, preHandTotal, legalRun>>
gatewayVars == <<params, pc, result, adapterCalls, logged>>
uiVars == <<turn, seatSettings, pageConfig, llmState, requests, lastApply>>
vars == <<state, events, actionHistory, preHandTotal, legalRun,
          params, pc, result, adapterCalls, logged,
          turn, seatSettings, pageConfig, llmState, requests, lastApply,
          snapshot>>

(* ------------------------------ bounds -------------------------------- *)

\* applyAction is explored until actionHistory holds MaxActions entries
MaxActions == 7
\* startNextHand is explored while handId < MaxHands
MaxHands == 2
\* the strengths a hand can be given at showdown are 1..MaxRank
MaxRank == 2
\* bet and raise amounts are drawn from 0..MaxAmount (and null)
MaxAmount == 7
\* the bounds of the legal_actions handed to the gateway lie in
\* 1..MaxLegalAmount; proposed amounts are drawn from 0..MaxLegalAmount + 1
MaxLegalAmount == 3

(* --------------------------- configuration ---------------------------- *)

SEAT_COUNT == 6
DECK_SIZE == 52
SEATS == 0 .. (SEAT_COUNT - 1)

\* GameConfig.smallBlind / GameConfig.bigBlind of the engine under test
config == [smallBlind |-> 1, bigBlind |-> 2]

\* GameConfig.startingStacks: the tables the engine is created with
StartingStacks ==
  { [s \in SEATS |-> <<0, 0, 3, 4, 5, 0>>[s + 1]],
    [s \in SEATS |-> <<0, 0, 4, 2, 4, 0>>[s + 1]],
    [s \in SEATS |-> <<3, 0, 4, 0, 5, 0>>[s + 1]],
    [s \in SEATS |-> <<4, 0, 0, 3, 3, 0>>[s + 1]],
    [s \in SEATS |-> <<0, 0, 3, 1, 6, 4>>[s + 1]],
    [s \in SEATS |-> <<2, 2, 2, 2, 2, 2>>[s + 1]] }

\* the amount of an action that carries none (Action.amount = null), and
\* the seat firstActiveFrom returns when it finds none
null == 0 - 1

(* ------------------------------ helpers ------------------------------- *)

Min2(a, b) == IF a <= b THEN a ELSE b
Max2(a, b) == IF a >= b THEN a ELSE b

RECURSIVE SumOver(_, _)
SumOver(f, S) == IF S = {} THEN 0
                 ELSE LET x == CHOOSE y \in S : TRUE
                      IN f[x] + SumOver(f, S \ {x})

\* the elements of a set of integers in ascending order (Array.sort, and the
\* seat order of players.filter / Object.keys on integer keys)
RECURSIVE SortAsc(_)
SortAsc(S) == IF S = {} THEN <<>>
              ELSE LET m == CHOOSE x \in S : \A y \in S : x <= y
                   IN <<m>> \o SortAsc(S \ {m})

SeqRange(q) == { q[i] : i \in 1 .. Len(q) }

Throw(ctx, msg) == [ctx EXCEPT !.error = msg]
Push(ctx, e) == [ctx EXCEPT !.events = Append(@, e)]
Ok(ctx) == ctx.error = ""

(* ------------------------- engine/state.ts ---------------------------- *)

createInitialState(startingStacks) ==
  [ handId |-> 1,
    dealerSeat |-> 0,
    smallBlindSeat |-> 1,
    bigBlindSeat |-> 2,
    actionSeat |-> 3,
    phase |-> "preflop",
    board |-> <<>>,
    deck |-> <<>>,
    burn |-> <<>>,
    players |-> [s \in SEATS |->
                   [ seat |-> s,
                     stack |-> startingStacks[s],
                     totalCommitted |-> 0,
                     streetCommitted |-> 0,
                     status |-> "active",
                     holeCards |-> <<>> ]],
    pots |-> <<>>,
    currentBet |-> 0,
    minRaiseTo |-> config.bigBlind,
    lastRaiseSize |-> config.bigBlind,
    actionsThisStreet |-> 0,
    canRaise |-> [s \in SEATS |-> TRUE],
    \* not set by createInitialState; resetStreet assigns both before any read
    hasActedThisRound |-> [s \in SEATS |-> FALSE],
    betThisRound |-> [s \in SEATS |-> 0] ]

(* ------------------------- engine/engine.ts --------------------------- *)

nextSeat(seat) == (seat + 1) % 6

countEligiblePlayers(players) ==
  Cardinality({ s \in SEATS : players[s].status \notin {"folded", "out"} })

firstActiveFrom(st, start) ==
  LET hits == { i \in 0 .. 5 :
                  LET p == st.players[(start + i) % 6]
                  IN p.status = "active" /\ p.stack > 0 }
  IN IF hits = {} THEN null
     ELSE (start + (CHOOSE i \in hits : \A j \in hits : i <= j)) % 6

resetStreet(st) ==
  [st EXCEPT
     !.players = [s \in SEATS |-> [st.players[s] EXCEPT !.streetCommitted = 0]],
     !.canRaise = [s \in SEATS |->
                     st.players[s].status = "active" /\ st.players[s].stack > 0],
     !.betThisRound = [s \in SEATS |-> 0],
     !.hasActedThisRound = [s \in SEATS |->
                              st.players[s].status \in {"all_in", "out"}],
     !.currentBet = 0,
     !.lastRaiseSize = config.bigBlind,
     !.minRaiseTo = config.bigBlind,
     !.actionsThisStreet = 0]

\* what postBlind returns: the chips actually posted
posted(st, seat, amount) == Min2(st.players[seat].stack, amount)

postBlind(st, seat, amount) ==
  LET p == st.players[seat]
      amt == posted(st, seat, amount)
      allIn == p.stack - amt = 0
  IN [st EXCEPT
        !.players[seat] =
           [p EXCEPT !.stack = @ - amt,
                     !.totalCommitted = @ + amt,
                     !.streetCommitted = @ + amt,
                     !.status = IF allIn THEN "all_in" ELSE @],
        !.betThisRound[seat] = p.streetCommitted + amt,
        !.hasActedThisRound[seat] = IF allIn THEN TRUE ELSE @]

\* deals `count` cards to one seat; throws when the deck runs out
RECURSIVE dealToSeat(_, _, _)
dealToSeat(ctx, seat, count) ==
  IF count = 0 \/ ~Ok(ctx) THEN ctx
  ELSE IF ctx.state.deck = <<>> THEN Throw(ctx, "Deck exhausted.")
  ELSE dealToSeat(
         [ctx EXCEPT !.state.players[seat].holeCards = Append(@, Head(ctx.state.deck)),
                     !.state.deck = Tail(@)],
         seat, count - 1)

RECURSIVE revealBoard(_, _)
revealBoard(ctx, count) ==
  IF count = 0 \/ ~Ok(ctx) THEN ctx
  ELSE IF ctx.state.deck = <<>> THEN Throw(ctx, "Deck exhausted.")
  ELSE revealBoard(
         [ctx EXCEPT !.state.board = Append(@, Head(ctx.state.deck)),
                     !.state.deck = Tail(@)],
         count - 1)

\* dealBoard burning no card before it reveals the street
dealBoardWithoutBurn(ctx, count) ==
  IF ctx.state.deck = <<>> THEN Throw(ctx, "Deck exhausted.")
  ELSE revealBoard(ctx, count)


dealBoard(ctx, count) ==
  IF ctx.state.deck = <<>> THEN Throw(ctx, "Deck exhausted.")
  ELSE revealBoard(
         [ctx EXCEPT !.state.burn = Append(@, Head(ctx.state.deck)),
                     !.state.deck = Tail(@)],
         count)

(* the deck of a hand: shuffleDeck(createDeck(), createRng(seed:handId)),  *)
(* its cards named by their position in the shuffled order                 *)
shuffledDeck == [i \in 1 .. DECK_SIZE |-> i]

\* computePots sizing every pot by its whole level, the level below not
\* taken off
potsWithoutPrevious(players) ==
  LET uniqueLevels == SortAsc({ v \in { players[s].totalCommitted : s \in SEATS } : v > 0 })
  IN [i \in 1 .. Len(uniqueLevels) |->
        [ amount |-> uniqueLevels[i]
                       * Cardinality({ s \in SEATS :
                                         players[s].totalCommitted >= uniqueLevels[i] }),
          eligibleSeats |->
            SortAsc({ s \in SEATS :
                        /\ players[s].totalCommitted >= uniqueLevels[i]
                        /\ players[s].status \notin {"folded", "out"} }) ]]


computePots(players) ==
  LET uniqueLevels == SortAsc({ v \in { players[s].totalCommitted : s \in SEATS } : v > 0 })
  IN [i \in 1 .. Len(uniqueLevels) |->
        LET level == uniqueLevels[i]
            previous == IF i = 1 THEN 0 ELSE uniqueLevels[i - 1]
            contributors == { s \in SEATS : players[s].totalCommitted >= level }
        IN [ amount |-> (level - previous) * Cardinality(contributors),
             eligibleSeats |->
               SortAsc({ s \in contributors :
                           players[s].status \notin {"folded", "out"} }) ]]

RECURSIVE oddChipLoop(_, _, _, _, _)
oddChipLoop(payouts, winners, seat, awarded, remainder) ==
  IF awarded >= remainder THEN payouts
  ELSE IF seat \in winners
       THEN oddChipLoop([payouts EXCEPT ![seat] = @ + 1], winners,
                        nextSeat(seat), awarded + 1, remainder)
       ELSE oddChipLoop(payouts, winners, nextSeat(seat), awarded, remainder)

\* distributeOddChips handing the odd chips out from seat 0 on, wherever the
\* dealer sits
oddChipsFromSeatZero(total, winners, dealerSeat) ==
  LET per == total \div Cardinality(winners)
      remainder == total % Cardinality(winners)
  IN oddChipLoop([s \in winners |-> per], winners, 0, 0, remainder)


distributeOddChips(total, winners, dealerSeat) ==
  LET per == total \div Cardinality(winners)
      remainder == total % Cardinality(winners)
  IN oddChipLoop([s \in winners |-> per], winners, nextSeat(dealerSeat), 0, remainder)

\* evaluate7 throws unless it is given exactly 7 cards
evaluate7Throws(cards) == Len(cards) # 7

\* the seats whose hand resolveShowdown evaluates
showdownSeats(st, pots) ==
  UNION { SeqRange(pots[i].eligibleSeats) : i \in 1 .. Len(pots) }

\* resolveShowdown over the pots computePots returned.  strength[seat] is the
\* HandRank evaluate7 gives the seat's 7 cards; compareHands orders strengths
showdownOver(st, pots, strength) ==
  LET contested == SortAsc({ i \in 1 .. Len(pots) : Len(pots[i].eligibleSeats) > 0 })
      seats == showdownSeats(st, pots)
      faulty == \E s \in seats :
                  evaluate7Throws(st.players[s].holeCards \o st.board)
      winnersOf(i) ==
        LET contenders == SeqRange(pots[i].eligibleSeats)
        IN { s \in contenders : \A o \in contenders : strength[s] >= strength[o] }
  IN [ error |-> IF faulty THEN "evaluate7 requires exactly 7 cards." ELSE "",
       pots |-> pots,
       results |-> [k \in 1 .. Len(contested) |->
                      [ potIndex |-> contested[k] - 1,
                        payouts |-> distributeOddChips(pots[contested[k]].amount,
                                                       winnersOf(contested[k]),
                                                       st.dealerSeat) ]],
       seatRanks |-> [s \in seats |-> strength[s]] ]

resolveShowdown(st, strength) ==
  showdownOver(st, computePots(st.players), strength)

\* the awards of results[k..], pot by pot, seats in key order
RECURSIVE awardsFrom(_, _)
awardsFrom(results, k) ==
  IF k > Len(results) THEN <<>>
  ELSE LET r == results[k]
           seats == SortAsc(DOMAIN r.payouts)
       IN [j \in 1 .. Len(seats) |->
             [seat |-> seats[j], amount |-> r.payouts[seats[j]], potIndex |-> r.potIndex]]
          \o awardsFrom(results, k + 1)

\* awardPots adding only the first award to its seat's stack
payFirstAward(players, awards, k) ==
  IF awards = <<>> THEN players
  ELSE [players EXCEPT ![awards[1].seat].stack = @ + awards[1].amount]


RECURSIVE payAwards(_, _, _)
payAwards(players, awards, k) ==
  IF k > Len(awards) THEN players
  ELSE payAwards([players EXCEPT ![awards[k].seat].stack = @ + awards[k].amount],
                 awards, k + 1)

\* awardPots from what resolveShowdown returned
payShowdown(st, showdown) ==
  LET awards == awardsFrom(showdown.results, 1)
  IN IF showdown.error # ""
     THEN [error |-> showdown.error, state |-> st, pots |-> <<>>,
           awards |-> <<>>, seatRanks |-> <<>>]
     ELSE [ error |-> "",
            state |-> [st EXCEPT !.players = payAwards(st.players, awards, 1),
                                 !.pots = showdown.pots],
            pots |-> showdown.pots,
            awards |-> awards,
            seatRanks |-> showdown.seatRanks ]

awardPots(st, strength) == payShowdown(st, resolveShowdown(st, strength))

\* collectUncontested paying the winner the other seats' chips only
collectOthersChips(st) ==
  LET remaining == { s \in SEATS : st.players[s].status \notin {"folded", "out"} }
      winner == CHOOSE s \in remaining : TRUE
      potTotal == SumOver([s \in SEATS |-> st.players[s].totalCommitted], SEATS)
                    - st.players[winner].totalCommitted
  IN IF Cardinality(remaining) # 1
     THEN [found |-> FALSE, state |-> st, winner |-> null, amount |-> 0]
     ELSE [ found |-> TRUE,
            state |-> [st EXCEPT
                         !.players[winner].stack = @ + potTotal,
                         !.pots = << [amount |-> potTotal,
                                      eligibleSeats |-> <<winner>>] >>],
            winner |-> winner,
            amount |-> potTotal ]


collectUncontested(st) ==
  LET remaining == { s \in SEATS : st.players[s].status \notin {"folded", "out"} }
      winner == CHOOSE s \in remaining : TRUE
      potTotal == SumOver([s \in SEATS |-> st.players[s].totalCommitted], SEATS)
  IN IF Cardinality(remaining) # 1
     THEN [found |-> FALSE, state |-> st, winner |-> null, amount |-> 0]
     ELSE [ found |-> TRUE,
            state |-> [st EXCEPT
                         !.players[winner].stack = @ + potTotal,
                         !.pots = << [amount |-> potTotal,
                                      eligibleSeats |-> <<winner>>] >>],
            winner |-> winner,
            amount |-> potTotal ]

Event(type, handId, data) == [type |-> type, handId |-> handId, data |-> data]

\* the two dealing passes of ensureHandSetup: slot k is seat SB + k (mod 6)
RECURSIVE dealHoleCards(_, _)
dealHoleCards(ctx, k) ==
  IF k >= 2 * 6 \/ ~Ok(ctx) THEN ctx
  ELSE LET dealSeat == (ctx.state.smallBlindSeat + k) % 6
       IN dealHoleCards(
            IF ctx.state.players[dealSeat].status = "active"
            THEN dealToSeat(ctx, dealSeat, 1)
            ELSE ctx,
            k + 1)

\* the seats ensureHandSetup gives the blinds to
blindSeats(dealerSeat) ==
  [ smallBlindSeat |-> nextSeat(dealerSeat),
    bigBlindSeat |-> nextSeat(nextSeat(dealerSeat)) ]

\* ensureHandSetup leaving each seat's totalCommitted as the last hand left it
clearKeepingCommitted(st) ==
  [st EXCEPT
     !.deck = shuffledDeck,
     !.board = <<>>,
     !.burn = <<>>,
     !.players = [s \in SEATS |->
        [st.players[s] EXCEPT
           !.holeCards = <<>>,
           !.streetCommitted = 0,
           !.status = IF st.players[s].stack = 0 THEN "out" ELSE "active"]]]


\* ensureHandSetup: a fresh deck, and every seat cleared for the hand
clearForHand(st) ==
  [st EXCEPT
     !.deck = shuffledDeck,
     !.board = <<>>,
     !.burn = <<>>,
     !.players = [s \in SEATS |->
        [st.players[s] EXCEPT
           !.holeCards = <<>>,
           !.totalCommitted = 0,
           !.streetCommitted = 0,
           !.status = IF st.players[s].stack = 0 THEN "out" ELSE "active"]]]

\* ensureHandSetup: the button moves, the street is reset, hand_started
moveButton(ctx) ==
  LET dealer == (ctx.state.dealerSeat + 1) % 6
  IN [ctx EXCEPT
        !.state = resetStreet([ctx.state EXCEPT
                     !.dealerSeat = dealer,
                     !.smallBlindSeat = blindSeats(dealer).smallBlindSeat,
                     !.bigBlindSeat = blindSeats(dealer).bigBlindSeat,
                     !.phase = "preflop"]),
        !.events = Append(@, Event("hand_started", ctx.state.handId,
                                   [ dealerSeat |-> dealer,
                                     smallBlindSeat |-> blindSeats(dealer).smallBlindSeat,
                                     bigBlindSeat |-> blindSeats(dealer).bigBlindSeat ]))]

\* ensureHandSetup: the big blind is posted after the small one and the
\* betting round is opened; blind_posted twice
postBigBlind(ctx, sbPosted, st) ==
  LET bbPosted == posted(st, st.bigBlindSeat, config.bigBlind)
      both == postBlind(st, st.bigBlindSeat, config.bigBlind)
  IN [ctx EXCEPT
        !.state = [both EXCEPT
           !.currentBet = bbPosted,
           !.lastRaiseSize = config.bigBlind,
           !.minRaiseTo = bbPosted + config.bigBlind,
           !.canRaise = [s \in SEATS |->
              both.players[s].status = "active" /\ both.players[s].stack > 0],
           !.betThisRound = [s \in SEATS |-> both.players[s].streetCommitted],
           !.hasActedThisRound = [s \in SEATS |->
              both.players[s].status \in {"all_in", "out"}]],
        !.events = @ \o
           << Event("blind_posted", st.handId,
                    [seat |-> st.smallBlindSeat, amount |-> sbPosted]),
              Event("blind_posted", st.handId,
                    [seat |-> st.bigBlindSeat, amount |-> bbPosted]) >>]

\* ensureHandSetup: the two blinds
postBlinds(ctx) ==
  postBigBlind(ctx,
               posted(ctx.state, ctx.state.smallBlindSeat, config.smallBlind),
               postBlind(ctx.state, ctx.state.smallBlindSeat, config.smallBlind))

\* ensureHandSetup: the first active seat after the big blind is to act
seatFirstToAct(dealt) ==
  LET actionSeat == firstActiveFrom(dealt.state, nextSeat(dealt.state.bigBlindSeat))
  IN IF ~Ok(dealt) THEN dealt
     ELSE IF actionSeat = null THEN Throw(dealt, "No active player to act.")
     ELSE [dealt EXCEPT !.state.actionSeat = actionSeat]

ensureHandSetup(ctx) ==
  seatFirstToAct(
    dealHoleCards(
      postBlinds(moveButton([ctx EXCEPT !.state = clearForHand(ctx.state)])),
      0))

\* isBettingRoundComplete without the comparison of betThisRound to currentBet
roundCompleteOnceActed(st) ==
  \A s \in SEATS :
    st.players[s].status \notin {"folded", "out"} => st.hasActedThisRound[s]


isBettingRoundComplete(st) ==
  LET stillInHand == { s \in SEATS : st.players[s].status \notin {"folded", "out"} }
  IN IF stillInHand = {} THEN TRUE
     ELSE \A s \in stillInHand :
            IF st.players[s].status = "all_in"
            THEN st.hasActedThisRound[s]
            ELSE st.betThisRound[s] = st.currentBet /\ st.hasActedThisRound[s]

\* advancePhase: the street's cards are dealt and the phase moves on
dealStreet(ctx) ==
  LET ph == ctx.state.phase
      dealt == IF ph = "preflop" THEN dealBoard(ctx, 3)
               ELSE IF ph \in {"flop", "turn"} THEN dealBoard(ctx, 1)
               ELSE ctx
      newPhase == IF ph = "preflop" THEN "flop"
                  ELSE IF ph = "flop" THEN "turn"
                  ELSE IF ph = "turn" THEN "river"
                  ELSE IF ph = "river" THEN "showdown"
                  ELSE ph
  IN IF ~Ok(dealt) THEN dealt
     ELSE [dealt EXCEPT !.state.phase = newPhase]

\* advancePhase: unless the phase is showdown, street_dealt is pushed, the
\* street reset and the first active seat from the small blind is to act
openStreet(ctx) ==
  LET c2 == Push(ctx, Event("street_dealt", ctx.state.handId,
                            [phase |-> ctx.state.phase, board |-> ctx.state.board]))
      c3 == [c2 EXCEPT !.state = resetStreet(c2.state)]
      actionSeat == firstActiveFrom(c3.state, c3.state.smallBlindSeat)
  IN IF ~Ok(ctx) THEN ctx
     ELSE IF ctx.state.phase = "showdown" THEN ctx
     ELSE IF actionSeat = null THEN Throw(c3, "No active player to act.")
     ELSE [c3 EXCEPT !.state.actionSeat = actionSeat]

advancePhase(ctx) == openStreet(dealStreet(ctx))

RECURSIVE pushAwards(_, _, _)
pushAwards(ctx, awards, k) ==
  IF k > Len(awards) THEN ctx
  ELSE pushAwards(Push(ctx, Event("pot_awarded", ctx.state.handId, awards[k])),
                  awards, k + 1)

\* resolveHandEnd: phase = ended and hand_ended
endHand(ctx) ==
  Push([ctx EXCEPT !.state.phase = "ended"],
       Event("hand_ended", ctx.state.handId, <<>>))

\* resolveHandEnd when collectUncontested found a winner
settleUncontested(ctx, uncontested) ==
  Push([ctx EXCEPT !.state = uncontested.state],
       Event("pot_awarded", ctx.state.handId,
             [seat |-> uncontested.winner, amount |-> uncontested.amount]))

\* the data of hand_summary
handSummary(won) ==
  [ showdown |-> [k \in 1 .. Len(SortAsc(DOMAIN won.seatRanks)) |->
                    LET seat == SortAsc(DOMAIN won.seatRanks)[k]
                    IN [seat |-> seat, handRank |-> won.seatRanks[seat]]],
    pots |-> [i \in 1 .. Len(won.pots) |->
                [ potIndex |-> i - 1,
                  amount |-> won.pots[i].amount,
                  eligibleSeats |-> won.pots[i].eligibleSeats,
                  winners |->
                    LET mine == SelectSeq(won.awards,
                                          LAMBDA a : a.potIndex = i - 1)
                    IN [j \in 1 .. Len(mine) |->
                          [seat |-> mine[j].seat,
                           amount |-> mine[j].amount]] ]] ]

\* resolveHandEnd when the pots go to a showdown: `won` is what awardPots
\* returned, or the error it threw
settleShowdown(ctx, won) ==
  IF won.error # "" THEN Throw(ctx, won.error)
  ELSE endHand(Push(pushAwards([ctx EXCEPT !.state = won.state], won.awards, 1),
                    Event("hand_summary", ctx.state.handId, handSummary(won))))

resolveHandEnd(ctx, strength) ==
  IF collectUncontested(ctx.state).found
  THEN endHand(settleUncontested(ctx, collectUncontested(ctx.state)))
  ELSE settleShowdown(ctx, awardPots(ctx.state, strength))

\* advanceAfterAction after advancePhase: the hand is resolved when the
\* phase has become showdown
showdownIfReached(advanced, strength) ==
  IF Ok(advanced) /\ advanced.state.phase = "showdown"
  THEN resolveHandEnd(advanced, strength)
  ELSE advanced

advanceAfterAction(ctx, strength) ==
  IF countEligiblePlayers(ctx.state.players) <= 1 THEN resolveHandEnd(ctx, strength)
  ELSE IF ctx.state.phase = "showdown" THEN resolveHandEnd(ctx, strength)
  ELSE IF isBettingRoundComplete(ctx.state)
       THEN showdownIfReached(advancePhase(ctx), strength)
  ELSE LET nextAction == firstActiveFrom(ctx.state, nextSeat(ctx.state.actionSeat))
       IN IF nextAction = null THEN resolveHandEnd(ctx, strength)
          ELSE [ctx EXCEPT !.state.actionSeat = nextAction]

\* getPlayerToAct throws unless the action seat is active
playerToActMissing(st) == st.players[st.actionSeat].status # "active"

\* markActedAfterAggression marking the actor and leaving every other seat
\* as it was
markActorOnly(st, actorSeat) ==
  [st EXCEPT !.hasActedThisRound[actorSeat] = TRUE]


markActedAfterAggression(st, actorSeat) ==
  [st EXCEPT !.hasActedThisRound =
     [s \in SEATS |-> IF s = actorSeat THEN TRUE
                      ELSE IF st.players[s].status = "active" THEN FALSE
                      ELSE TRUE]]

LegalAction(type, minAmount, maxAmount) ==
  [type |-> type, minAmount |-> minAmount, maxAmount |-> maxAmount]

\* the list legalActionsForPlayer returns (it throws when playerToActMissing)
legalActionsForPlayer(st) ==
  LET seat == st.actionSeat
      player == st.players[seat]
      toCall == Max2(0, st.currentBet - st.betThisRound[seat])
      maxTotal == st.betThisRound[seat] + player.stack
  IN IF toCall > 0
     THEN << LegalAction("fold", null, null), LegalAction("call", null, null) >>
          \o (IF maxTotal > st.currentBet /\ st.canRaise[seat]
              THEN << LegalAction("raise", Min2(st.minRaiseTo, maxTotal), maxTotal) >>
              ELSE <<>>)
     ELSE << LegalAction("check", null, null) >>
          \o (IF player.stack > 0
              THEN << LegalAction("bet", Min2(config.bigBlind, maxTotal), maxTotal) >>
              ELSE <<>>)

Action(actor, type, amount) == [actor |-> actor, type |-> type, amount |-> amount]

\* the chips a call moves: Math.min(player.stack, toCall)
callAmount(stack, toCall) == Min2(stack, toCall)

\* the error applyPlayerAction throws for the action ("" when it accepts it);
\* every throw precedes the first assignment
applyPlayerActionError(st, action) ==
  LET seat == st.actionSeat
      player == st.players[seat]
      toCall == Max2(0, st.currentBet - st.betThisRound[seat])
      maxTotal == st.betThisRound[seat] + player.stack
  IN IF playerToActMissing(st) THEN "Action seat is not active."
     ELSE IF action.actor # seat THEN "Action actor does not match action seat."
     ELSE IF action.type = "fold"
          THEN (IF toCall = 0 THEN "Cannot fold when checking is available." ELSE "")
     ELSE IF action.type = "check"
          THEN (IF toCall # 0 THEN "Cannot check when facing a bet." ELSE "")
     ELSE IF action.type = "call" THEN ""
     ELSE IF action.type = "bet"
          THEN (IF toCall # 0 THEN "Cannot bet when facing a bet."
                ELSE IF action.amount = null THEN "Bet requires amount."
                ELSE IF action.amount <= 0 \/ action.amount > maxTotal
                     THEN "Bet amount out of range."
                ELSE IF action.amount < config.bigBlind /\ action.amount # maxTotal
                     THEN "Bet below minimum and not all-in."
                ELSE "")
     ELSE IF action.type = "raise"
          THEN (IF toCall <= 0 THEN "Cannot raise without a bet to call."
                ELSE IF action.amount = null THEN "Raise requires amount."
                ELSE IF action.amount <= st.currentBet \/ action.amount > maxTotal
                     THEN "Raise amount out of range."
                ELSE IF action.amount < st.minRaiseTo /\ action.amount # maxTotal
                     THEN "Raise below minimum and not all-in."
                ELSE "")
     ELSE "Unknown action type"

\* the state applyPlayerAction leaves when it accepts the action
applyPlayerAction(st, action) ==
  LET seat == st.actionSeat
      player == st.players[seat]
      toCall == Max2(0, st.currentBet - st.betThisRound[seat])
      commit(amt) == [player EXCEPT
                        !.stack = @ - amt,
                        !.totalCommitted = @ + amt,
                        !.streetCommitted = @ + amt,
                        !.status = IF player.stack - amt = 0 THEN "all_in" ELSE @]
      funded(players) == [s \in SEATS |->
                            players[s].status = "active" /\ players[s].stack > 0]
  IN IF action.type = "fold"
     THEN [st EXCEPT !.players[seat].status = "folded",
                     !.canRaise[seat] = FALSE,
                     !.hasActedThisRound[seat] = TRUE]
     ELSE IF action.type = "check"
     THEN [st EXCEPT !.canRaise[seat] = FALSE,
                     !.hasActedThisRound[seat] = TRUE]
     ELSE IF action.type = "call"
     THEN LET amt == callAmount(player.stack, toCall)
          IN [st EXCEPT !.players[seat] = commit(amt),
                        !.betThisRound[seat] = @ + amt,
                        !.canRaise[seat] = FALSE,
                        !.hasActedThisRound[seat] = TRUE]
     ELSE IF action.type = "bet"
     THEN LET betTo == action.amount
              betAmount == betTo - st.betThisRound[seat]
              s1 == [st EXCEPT !.players[seat] = commit(betAmount),
                               !.betThisRound[seat] = betTo,
                               !.currentBet = betTo,
                               !.lastRaiseSize = betTo - 0,
                               !.minRaiseTo = betTo + (betTo - 0)]
          IN markActedAfterAggression(
               [s1 EXCEPT !.canRaise = funded(s1.players)], seat)
     ELSE LET raiseTo == action.amount
              raiseAmount == raiseTo - st.betThisRound[seat]
              full == raiseTo >= st.minRaiseTo
              s1 == [st EXCEPT !.players[seat] = commit(raiseAmount),
                               !.betThisRound[seat] = raiseTo]
              s2 == IF full
                    THEN [s1 EXCEPT !.lastRaiseSize = raiseTo - st.currentBet,
                                    !.minRaiseTo = raiseTo + (raiseTo - st.currentBet),
                                    !.canRaise = funded(s1.players)]
                    ELSE s1
              s3 == [s2 EXCEPT !.currentBet = Max2(st.currentBet, raiseTo)]
              s4 == IF ~full \/ s3.players[seat].stack = 0
                    THEN [s3 EXCEPT !.canRaise[seat] = FALSE]
                    ELSE s3
          IN markActedAfterAggression(s4, seat)

(* ----------------------- createEngine: the API ------------------------ *)

\* the engine's closure: state, events, actionHistory
Engine(st, ev, hist) == [state |-> st, events |-> ev, actionHistory |-> hist]

Outcome(eng, error) == [engine |-> eng, error |-> error]

\* the engine and the error a call leaves: ctx is the state and the events
\* its last step left, and the Error it threw
Left(ctx, hist) == Outcome(Engine(ctx.state, ctx.events, hist), ctx.error)

createEngine(startingStacks) ==
  Left(ensureHandSetup([ state |-> createInitialState(startingStacks),
                         events |-> <<>>,
                         error |-> "" ]),
       <<>>)

\* getLegalActions: [] once the hand has ended
getLegalActions(st) ==
  IF st.phase = "ended" THEN <<>> ELSE legalActionsForPlayer(st)

getLegalActionsThrows(st) == st.phase # "ended" /\ playerToActMissing(st)

\* applyAction recording the action before applyPlayerAction has checked it
applyActionRecordedFirst(eng, action, strength) ==
  IF eng.state.phase = "ended" THEN Outcome(eng, "Hand is over.")
  ELSE IF applyPlayerActionError(eng.state, action) # ""
       THEN Outcome([eng EXCEPT !.actionHistory = Append(@, action)],
                    applyPlayerActionError(eng.state, action))
  ELSE Left(advanceAfterAction(
              [ state |-> applyPlayerAction(eng.state, action),
                events |-> Append(eng.events,
                                  Event("action_taken", eng.state.handId,
                                        [action |-> action])),
                error |-> "" ],
              strength),
            Append(eng.actionHistory, action))


\* applyAction pushing action_taken only after advanceAfterAction has run
applyActionLoggedLast(eng, action, strength) ==
  IF eng.state.phase = "ended" THEN Outcome(eng, "Hand is over.")
  ELSE IF applyPlayerActionError(eng.state, action) # ""
       THEN Outcome(eng, applyPlayerActionError(eng.state, action))
  ELSE Left(Push(advanceAfterAction(
                   [ state |-> applyPlayerAction(eng.state, action),
                     events |-> eng.events,
                     error |-> "" ],
                   strength),
                 Event("action_taken", eng.state.handId, [action |-> action])),
            Append(eng.actionHistory, action))


applyAction(eng, action, strength) ==
  IF eng.state.phase = "ended" THEN Outcome(eng, "Hand is over.")
  ELSE IF applyPlayerActionError(eng.state, action) # ""
       THEN Outcome(eng, applyPlayerActionError(eng.state, action))
  ELSE Left(advanceAfterAction(
              [ state |-> applyPlayerAction(eng.state, action),
                events |-> Append(eng.events,
                                  Event("action_taken", eng.state.handId,
                                        [action |-> action])),
                error |-> "" ],
              strength),
            Append(eng.actionHistory, action))

startNextHand(eng) ==
  IF eng.state.phase # "ended" THEN Outcome(eng, "Current hand is not finished.")
  ELSE Left(ensureHandSetup([ state |-> [eng.state EXCEPT !.handId = @ + 1],
                              events |-> eng.events,
                              error |-> "" ]),
            eng.actionHistory)

(* --------------- shared/: action modes, presets, credentials ---------- *)

ACTION_MODE ==
  [ MANUAL |-> "manual", AI_BASIC |-> "ai_basic",
    AI_STANDARD |-> "ai_standard", AI_EXPERIMENTAL |-> "ai_experimental" ]

CAPABILITY_LEVEL ==
  [ L1_BASIC |-> "L1_BASIC", L2_STANDARD |-> "L2_STANDARD",
    L3_EXPERIMENTAL |-> "L3_EXPERIMENTAL" ]

ModelPreset(id, provider, capability) ==
  [id |-> id, provider |-> provider, capability |-> capability]

MODEL_PRESET_REGISTRY ==
  << ModelPreset("qwen-flash", "qwen", CAPABILITY_LEVEL.L1_BASIC),
     ModelPreset("qwen-plus", "qwen", CAPABILITY_LEVEL.L2_STANDARD),
     ModelPreset("qwen-max", "qwen", CAPABILITY_LEVEL.L3_EXPERIMENTAL),
     ModelPreset("doubao-seed-1.6-lite", "doubao", CAPABILITY_LEVEL.L1_BASIC),
     ModelPreset("doubao-seed-1.8", "doubao", CAPABILITY_LEVEL.L3_EXPERIMENTAL),
     ModelPreset("deepseek-v3.2", "deepseek", CAPABILITY_LEVEL.L2_STANDARD),
     ModelPreset("gemini-flash", "gemini", CAPABILITY_LEVEL.L1_BASIC),
     ModelPreset("gemini-pro", "gemini", CAPABILITY_LEVEL.L2_STANDARD) >>

\* what Array.find returns when no preset has the id (undefined)
NoPreset == ModelPreset("", "", "")

getPresetById(id) ==
  LET hits == { i \in 1 .. Len(MODEL_PRESET_REGISTRY) : MODEL_PRESET_REGISTRY[i].id = id }
  IN IF hits = {} THEN NoPreset
     ELSE MODEL_PRESET_REGISTRY[CHOOSE i \in hits : \A j \in hits : i <= j]

ACTION_MODE_ALLOWED_CAPABILITIES ==
  [ manual |-> {},
    ai_basic |-> {CAPABILITY_LEVEL.L1_BASIC},
    ai_standard |-> {CAPABILITY_LEVEL.L1_BASIC, CAPABILITY_LEVEL.L2_STANDARD},
    ai_experimental |-> {CAPABILITY_LEVEL.L1_BASIC, CAPABILITY_LEVEL.L2_STANDARD,
                         CAPABILITY_LEVEL.L3_EXPERIMENTAL} ]

\* ACTION_MODE_ALLOWED_CAPABILITIES[actionMode] is undefined for a mode that
\* is not a key of the table, and `.includes` on undefined throws a TypeError
isCapabilityAllowedForActionModeThrows(actionMode) ==
  actionMode \notin DOMAIN ACTION_MODE_ALLOWED_CAPABILITIES

\* the mapping with every capability allowed under every known mode
everyCapabilityAllowed(actionMode, capability) ==
  actionMode \in DOMAIN ACTION_MODE_ALLOWED_CAPABILITIES

isCapabilityAllowedForActionMode(actionMode, capability) ==
  /\ actionMode \in DOMAIN ACTION_MODE_ALLOWED_CAPABILITIES
  /\ capability \in ACTION_MODE_ALLOWED_CAPABILITIES[actionMode]

\* validateSeatAiConfig: `threw` names the error it throws ("" when it returns)
validateSeatAiConfig(cfg) ==
  LET verdict(ok, reason, threw) == [ok |-> ok, reason |-> reason, threw |-> threw]
  IN IF cfg.actionMode = ACTION_MODE.MANUAL
     THEN (IF cfg.selectedPreset # NoPreset
           THEN verdict(FALSE, "MANUAL_MODE_NO_PRESET_ALLOWED", "")
           ELSE verdict(TRUE, "", ""))
     ELSE IF cfg.selectedPreset = NoPreset
     THEN verdict(FALSE, "AI_MODE_PRESET_REQUIRED", "")
     ELSE IF isCapabilityAllowedForActionModeThrows(cfg.actionMode)
     THEN verdict(FALSE, "", "TypeError")
     ELSE IF ~isCapabilityAllowedForActionMode(cfg.actionMode,
                                               cfg.selectedPreset.capability)
     THEN verdict(FALSE, "PRESET_CAPABILITY_NOT_ALLOWED", "")
     ELSE verdict(TRUE, "", "")

toAiConfigResult(validationResult) ==
  IF validationResult.ok
  THEN [type |-> "AI_CONFIG_SUCCESS", reason |-> ""]
  ELSE [type |-> "AI_CONFIG_FAILURE", reason |-> validationResult.reason]

validateSeatAiConfigWithFailureSemantics(cfg) ==
  toAiConfigResult(validateSeatAiConfig(cfg))

isAiConfigFailure(aiConfigResult) == aiConfigResult.type = "AI_CONFIG_FAILURE"

\* ProviderCredential; `present` is FALSE for a missing credential
Credential(present, provider, apiKey) ==
  [present |-> present, provider |-> provider, apiKey |-> apiKey]

\* String.prototype.trim on the keys a caller supplies
trim(text) == IF text = "   " THEN "" ELSE text

\* the credential step of proposeDecision
credentialResult(credential, preset) ==
  IF ~credential.present
  THEN [type |-> "CREDENTIAL_FAILURE", reason |-> "NO_KEY_PROVIDED"]
  ELSE IF credential.provider # preset.provider
  THEN [type |-> "CREDENTIAL_FAILURE", reason |-> "NO_KEY_PROVIDED"]
  ELSE IF credential.apiKey = "" \/ trim(credential.apiKey) = ""
  THEN [type |-> "CREDENTIAL_FAILURE", reason |-> "NO_KEY_PROVIDED"]
  ELSE [type |-> "CREDENTIAL_SUCCESS", reason |-> ""]

\* isCredentialFailure blind to every failure
noCredentialFailure(outcome) == FALSE

isCredentialFailure(outcome) == outcome.type = "CREDENTIAL_FAILURE"

\* getAdapterForProvider returns an adapter for these providers only
adapterProviders == {"qwen", "doubao", "deepseek", "gemini"}

(* ------------------- gateway: the decision pipeline ------------------- *)

\* Decision.action.amount when the action carries none
undefined == 0 - 2

\* a JSON member: absent, null, a number or a string
Absent == [kind |-> "absent", value |-> 0]
JsonNull == [kind |-> "null", value |-> 0]
JsonNumber(n) == [kind |-> "number", value |-> n]
JsonString == [kind |-> "string", value |-> 0]

\* String.prototype.toUpperCase on the action types a model writes
toUpperCase(text) ==
  IF text = "fold" THEN "FOLD"
  ELSE IF text = "call" THEN "CALL"
  ELSE IF text = "raise" THEN "RAISE"
  ELSE IF text = "check" THEN "CHECK"
  ELSE text

getRejectMessageCode(reason) ==
  IF reason = "invalid_ai_config" THEN "AI_CONFIG_INVALID"
  ELSE IF reason = "missing_credential" THEN "CREDENTIAL_MISSING"
  ELSE IF reason = "provider_error" THEN "PROVIDER_ERROR"
  ELSE IF reason = "invalid_json" THEN "INVALID_RESPONSE_FORMAT"
  ELSE IF reason = "schema_mismatch" THEN "RESPONSE_SCHEMA_MISMATCH"
  ELSE IF reason = "illegal_action" THEN "ACTION_NOT_LEGAL"
  ELSE IF reason = "capability_limit" THEN "CAPABILITY_RESTRICTED"
  ELSE "PROVIDER_ERROR"

\* the three ProposalResult shapes (the message text is left out)
Rejected(reason) ==
  [ type |-> "REJECTED", reason |-> reason,
    messageCode |-> getRejectMessageCode(reason),
    allowManualFallback |-> TRUE, fallback |-> TRUE ]

Fallback(reason) == [type |-> "FALLBACK", reason |-> reason]

Accepted(decision) == [type |-> "ACCEPTED", decision |-> decision]

\* extractStatusCode: the three digits after "HTTP error:", else 500
\* (message.code is 0 when the message carries no status)
extractStatusCode(message) == IF message.code # 0 THEN message.code ELSE 500

\* the catch block around adapter.invoke
adapterFailure(message) ==
  IF message.httpError /\ extractStatusCode(message) \in {401, 403, 429}
  THEN Rejected("missing_credential")
  ELSE Rejected("provider_error")

\* parseRawTextAsJson.  A raw text is described by what the parser reads of
\* it: whether it starts with "{" and ends with "}", whether what follows its
\* first "}" starts with "{", whether JSON.parse accepts it, and the object
\* JSON.parse then returns.
parseRawTextAsJson(rawText) ==
  IF ~rawText.braced THEN Rejected("invalid_json")
  ELSE IF rawText.secondOpens THEN Rejected("invalid_json")
  ELSE IF ~rawText.wellFormed THEN Rejected("invalid_json")
  ELSE [type |-> "PARSED", parsed |-> rawText.json]

\* normalizeDecisionSchema turning a CHECK, which the schema does not know,
\* into a CALL
normalizeCheckAsCall(parsedJson) ==
  LET action == parsedJson.action
      asObject == IF action.kind = "string"
                     /\ toUpperCase(action.type) \in {"FOLD", "CALL", "RAISE"}
                  THEN [kind |-> "object", type |-> toUpperCase(action.type),
                        amount |-> Absent]
                  ELSE action
  IN IF action.kind = "absent" THEN parsedJson
     ELSE IF asObject.kind # "object" THEN parsedJson
     ELSE IF toUpperCase(asObject.type) = "CHECK"
     THEN [parsedJson EXCEPT !.action = [asObject EXCEPT !.type = "CALL",
                                                         !.amount = Absent]]
     ELSE IF toUpperCase(asObject.type) \in {"FOLD", "CALL"}
             /\ asObject.amount.kind = "null"
     THEN [parsedJson EXCEPT !.action = [asObject EXCEPT !.amount = Absent]]
     ELSE [parsedJson EXCEPT !.action = asObject]


normalizeDecisionSchema(parsedJson) ==
  LET known == {"FOLD", "CALL", "RAISE"}
      action == parsedJson.action
      asObject == IF action.kind = "string" /\ toUpperCase(action.type) \in known
                  THEN [kind |-> "object", type |-> toUpperCase(action.type),
                        amount |-> Absent]
                  ELSE action
  IN IF action.kind = "absent" THEN parsedJson
     ELSE IF asObject.kind # "object" THEN parsedJson
     ELSE IF toUpperCase(asObject.type) \in {"FOLD", "CALL"}
             /\ asObject.amount.kind = "null"
     THEN [parsedJson EXCEPT !.action = [asObject EXCEPT !.amount = Absent]]
     ELSE [parsedJson EXCEPT !.action = asObject]

Decision(type, amount, reason, confidence) ==
  [ action |-> [type |-> type, amount |-> amount],
    reason |-> reason,
    confidence |-> confidence ]

\* confidences and driver weights are written in hundredths
validateDecisionSchema(parsedJson) ==
  LET action == parsedJson.action
      actionType == toUpperCase(action.type)
      reason == parsedJson.reason
      badDriver == \E i \in 1 .. Len(reason.drivers) : reason.drivers[i].key = ""
      finalReason == IF reason.kind = "absent"
                     THEN [drivers |-> <<>>, plan |-> "see_turn", line |-> ""]
                     ELSE [drivers |-> reason.drivers, plan |-> "see_turn",
                           line |-> reason.line]
      confidence == IF parsedJson.confidence.kind = "absent" THEN 50
                    ELSE parsedJson.confidence.value
      amount == IF action.amount.kind = "number" THEN action.amount.value
                ELSE undefined
  IN IF action.kind # "object" THEN Rejected("schema_mismatch")
     ELSE IF actionType \notin {"FOLD", "CALL", "RAISE"} THEN Rejected("schema_mismatch")
     ELSE IF action.amount.kind \in {"absent", "null"} /\ actionType = "RAISE"
     THEN Rejected("schema_mismatch")
     ELSE IF action.amount.kind = "string" THEN Rejected("schema_mismatch")
     ELSE IF reason.kind # "absent" /\ badDriver THEN Rejected("schema_mismatch")
     ELSE [ type |-> "VALIDATED",
            decision |-> Decision(actionType, amount, finalReason, confidence) ]

\* engine/decision validateDecision: the Error it throws ("" when it returns)
validateDecision(decision) ==
  LET drivers == decision.reason.drivers
      weights == { drivers[i].weight : i \in 1 .. Len(drivers) }
      maxWeight == CHOOSE w \in weights : \A v \in weights : v <= w
      highestKeys == { drivers[i].key : i \in { j \in 1 .. Len(drivers) :
                                                  drivers[j].weight = maxWeight } }
  IN IF Len(drivers) < 2 THEN "Decision must include at least 2 drivers."
     ELSE IF \E w \in weights : w < 0 THEN "Driver weight must be non-negative"
     ELSE IF decision.confidence < 0 \/ decision.confidence > 100
     THEN "Confidence must be between 0 and 1."
     ELSE IF trim(decision.reason.line) = "" THEN "Reason line must be non-empty."
     ELSE IF decision.action.type = "RAISE" /\ "risk" \in highestKeys
     THEN "RAISE cannot have risk as highest-weight driver."
     ELSE ""

\* Array.find: the first entry of the type, NoLegal when there is none
NoLegal == LegalAction("", null, null)

findLegal(legalActions, type) ==
  LET hits == { i \in 1 .. Len(legalActions) : legalActions[i].type = type }
  IN IF hits = {} THEN NoLegal
     ELSE legalActions[CHOOSE i \in hits : \A j \in hits : i <= j]

GateVerdict(valid, reason) == [valid |-> valid, reason |-> reason]

\* the legality step of enforceSemanticGate (STEP 2)
gateLegality(proposedAction, legalActions) ==
  LET intent == proposedAction.type
      legalFold == findLegal(legalActions, "fold")
      legalCheck == findLegal(legalActions, "check")
      legalCall == findLegal(legalActions, "call")
      legalBet == findLegal(legalActions, "bet")
      legalRaise == findLegal(legalActions, "raise")
      legal == IF legalBet # NoLegal THEN legalBet ELSE legalRaise
      amount == proposedAction.amount
  IN IF intent = "FOLD"
     THEN (IF legalFold = NoLegal THEN GateVerdict(FALSE, "illegal_action")
           ELSE GateVerdict(TRUE, ""))
     ELSE IF intent = "CALL"
     THEN (IF legalCheck = NoLegal /\ legalCall = NoLegal
           THEN GateVerdict(FALSE, "illegal_action")
           ELSE GateVerdict(TRUE, ""))
     ELSE IF intent = "RAISE"
     THEN (IF legalBet = NoLegal /\ legalRaise = NoLegal
           THEN GateVerdict(FALSE, "illegal_action")
           ELSE IF amount = undefined THEN GateVerdict(FALSE, "illegal_action")
           ELSE IF legal.minAmount # null /\ amount < legal.minAmount
           THEN GateVerdict(FALSE, "illegal_action")
           ELSE IF legal.maxAmount # null /\ amount > legal.maxAmount
           THEN GateVerdict(FALSE, "illegal_action")
           ELSE GateVerdict(TRUE, ""))
     ELSE GateVerdict(FALSE, "illegal_action")

\* enforceSemanticGate with the authority step left out
gateWithoutAuthority(proposedAction, legalActions, capability) ==
  gateLegality(proposedAction, legalActions)

\* enforceSemanticGate with the upper bound of a RAISE left unchecked
gateWithoutMaximum(proposedAction, legalActions, capability) ==
  IF capability = "L1_BASIC" /\ proposedAction.type = "RAISE"
  THEN GateVerdict(FALSE, "capability_limit")
  ELSE gateLegality(proposedAction,
                    [i \in 1 .. Len(legalActions) |->
                       [legalActions[i] EXCEPT !.maxAmount = null]])

\* enforceSemanticGate with its two steps in the other order: legality
\* first, authority second
gateLegalityFirst(proposedAction, legalActions, capability) ==
  IF ~gateLegality(proposedAction, legalActions).valid
  THEN gateLegality(proposedAction, legalActions)
  ELSE IF capability = "L1_BASIC" /\ proposedAction.type = "RAISE"
  THEN GateVerdict(FALSE, "capability_limit")
  ELSE GateVerdict(TRUE, "")

enforceSemanticGate(proposedAction, legalActions, capability) ==
  IF capability = "L1_BASIC" /\ proposedAction.type = "RAISE"
  THEN GateVerdict(FALSE, "capability_limit")
  ELSE gateLegality(proposedAction, legalActions)

\* what proposeDecision has done when it stops: returned a result, thrown
\* (its promise rejects), or reached `await adapter.invoke(...)`
Returned(proposal) == [pc |-> "returned", result |-> proposal]
Thrown(error) == [pc |-> "thrown", result |-> [type |-> "THROWN", error |-> error]]
NoResult == [type |-> "NONE"]
Awaiting == [pc |-> "awaiting", result |-> NoResult]

\* proposeDecisionStart without its manual-mode step: manual mode falls
\* through to the configuration check
startWithoutManualStep(p) ==
  LET preset == getPresetById(p.presetId)
      cfg == [actionMode |-> p.actionMode, selectedPreset |-> preset]
  IN IF preset = NoPreset THEN Returned(Rejected("invalid_ai_config"))
     ELSE IF validateSeatAiConfig(cfg).threw # ""
     THEN Thrown(validateSeatAiConfig(cfg).threw)
     ELSE IF isAiConfigFailure(validateSeatAiConfigWithFailureSemantics(cfg))
     THEN Returned(Rejected("invalid_ai_config"))
     ELSE IF isCredentialFailure(credentialResult(p.credential, preset))
     THEN Returned(Rejected("missing_credential"))
     ELSE Awaiting


\* String.prototype.length and substring(0, 8) on the keys a caller supplies
stringLength(text) ==
  IF text = "" THEN 0
  ELSE IF text = "   " THEN 3
  ELSE IF text = "sk-key" THEN 6
  ELSE 12

substring8(text) == IF text = "sk-other-key" THEN "sk-other" ELSE text

\* one line on the console: its message and those of its fields that name
\* the provider, the reject reason and the API key (null and "" when the
\* line has no such field); request id, hand id and time stamp are left out
LogEntry(message, provider, reason, apiKeyLength, apiKeyPrefix, apiKey) ==
  [ message |-> message, provider |-> provider, reason |-> reason,
    apiKeyLength |-> apiKeyLength, apiKeyPrefix |-> apiKeyPrefix,
    apiKey |-> apiKey ]

safeLog(message, provider, reason) ==
  LogEntry(message, provider, reason, null, "", "")

\* what proposeDecision writes to the console up to the adapter call
logOfStart(p) ==
  LET preset == getPresetById(p.presetId)
      cfg == [actionMode |-> p.actionMode, selectedPreset |-> preset]
      started == safeLog("Decision proposal request started",
                         IF p.credential.present /\ p.credential.provider # ""
                         THEN p.credential.provider ELSE "unknown", "")
      passed == LogEntry("[DEBUG] Credential check passed (MUST DELETE):",
                         preset.provider, "",
                         stringLength(p.credential.apiKey),
                         substring8(p.credential.apiKey), "")
  IN IF preset = NoPreset
     THEN << started, safeLog("Decision proposal rejected", "", "invalid_ai_config") >>
     ELSE IF p.actionMode = ACTION_MODE.MANUAL
     THEN << started, safeLog("Decision proposal fallback to manual",
                              preset.provider, "manual_mode") >>
     ELSE IF validateSeatAiConfig(cfg).threw # "" THEN << started >>
     ELSE IF isAiConfigFailure(validateSeatAiConfigWithFailureSemantics(cfg))
     THEN << started, safeLog("Decision proposal rejected", preset.provider,
                              "invalid_ai_config") >>
     ELSE IF isCredentialFailure(credentialResult(p.credential, preset))
     THEN << started, safeLog("Decision proposal rejected", preset.provider,
                              "missing_credential") >>
     ELSE IF preset.provider \notin adapterProviders THEN << started, passed >>
     ELSE << started, passed,
             safeLog("Adapter invocation started", preset.provider, ""),
             LogEntry("[DEBUG] Raw LLM Provider Request (MUST DELETE):",
                      preset.provider, "", null, "", "[REDACTED]") >>


\* proposeDecision up to the adapter call (steps 1 to 5)
proposeDecisionStart(p) ==
  LET preset == getPresetById(p.presetId)
      cfg == [actionMode |-> p.actionMode, selectedPreset |-> preset]
  IN IF preset = NoPreset THEN Returned(Rejected("invalid_ai_config"))
     ELSE IF p.actionMode = ACTION_MODE.MANUAL THEN Returned(Fallback("manual_mode"))
     ELSE IF validateSeatAiConfig(cfg).threw # ""
     THEN Thrown(validateSeatAiConfig(cfg).threw)
     ELSE IF isAiConfigFailure(validateSeatAiConfigWithFailureSemantics(cfg))
     THEN Returned(Rejected("invalid_ai_config"))
     ELSE IF isCredentialFailure(credentialResult(p.credential, preset))
     THEN Returned(Rejected("missing_credential"))
     ELSE IF preset.provider \notin adapterProviders
     THEN Returned(Rejected("provider_error"))
     ELSE Awaiting

\* proposeDecision from the adapter's answer on (steps 6 to 9); `settled` is
\* the raw text adapter.invoke resolved with, or the Error it threw
proposeDecisionResume(p, settled) ==
  LET preset == getPresetById(p.presetId)
      parseResult == parseRawTextAsJson(settled.rawText)
      normalizedJson == normalizeDecisionSchema(parseResult.parsed)
      validationResult == validateDecisionSchema(normalizedJson)
      typedDecision == validationResult.decision
      semanticGateResult == enforceSemanticGate(typedDecision.action,
                                                p.legal_actions, preset.capability)
  IN IF settled.kind = "error" THEN adapterFailure(settled.message)
     ELSE IF parseResult.type = "REJECTED" THEN parseResult
     ELSE IF validationResult.type = "REJECTED" THEN validationResult
     ELSE IF validateDecision(typedDecision) # "" THEN Rejected("schema_mismatch")
     ELSE IF ~semanticGateResult.valid THEN Rejected(semanticGateResult.reason)
     ELSE Accepted(typedDecision)

\* what proposeDecision writes to the console from the adapter's answer on:
\* every rejection is logged with its reason where it is built, an accepted
\* decision at the end
logOfResume(p, settled) ==
  LET preset == getPresetById(p.presetId)
      outcome == proposeDecisionResume(p, settled)
      last == IF outcome.type = "ACCEPTED"
              THEN safeLog("Decision proposal accepted", preset.provider, "")
              ELSE safeLog("Decision proposal rejected", preset.provider,
                           outcome.reason)
  IN IF settled.kind = "error" THEN << last >>
     ELSE << safeLog("[DEBUG] Raw LLM Provider Response (MUST DELETE):",
                     preset.provider, ""),
             safeLog("Adapter invocation succeeded", preset.provider, ""),
             last >>


\* public/app.js resolveLlmDecision: the engine action an accepted proposal
\* is executed as (ok = FALSE when it cannot be executed)
resolveLlmDecision(proposal, legalActions) ==
  LET intent == proposal.action.type
      amount == proposal.action.amount
      has(type) == findLegal(legalActions, type) # NoLegal
      refused == [ok |-> FALSE, action |-> [type |-> "", amount |-> undefined]]
      exec(type, amt) == [ok |-> TRUE, action |-> [type |-> type, amount |-> amt]]
      bounded(type) ==
        LET legal == findLegal(legalActions, type)
        IN IF legal.minAmount # null /\ amount < legal.minAmount THEN refused
           ELSE IF legal.maxAmount # null /\ amount > legal.maxAmount THEN refused
           ELSE exec(type, amount)
  IN IF intent \notin {"FOLD", "CALL", "RAISE"} THEN refused
     ELSE IF intent = "FOLD" THEN (IF has("fold") THEN exec("fold", undefined) ELSE refused)
     ELSE IF intent = "CALL"
     THEN (IF has("check") THEN exec("check", undefined)
           ELSE IF has("call") THEN exec("call", undefined)
           ELSE refused)
     ELSE IF amount = undefined THEN refused
     ELSE IF has("bet") THEN bounded("bet")
     ELSE IF has("raise") THEN bounded("raise")
     ELSE refused

(* ------------------------------ inputs -------------------------------- *)

ActionTypes == {"fold", "check", "call", "bet", "raise"}

\* the actions a caller submits in state st: as the action seat or as the
\* seat after it; fold, check and call carry no amount
ActionInputs(st) ==
  LET actors == {st.actionSeat, nextSeat(st.actionSeat)}
  IN { Action(actor, type, null) : actor \in actors, type \in ActionTypes }
       \cup { Action(actor, type, amount) :
                actor \in actors, type \in {"bet", "raise"}, amount \in 0 .. MaxAmount }

weakest == [s \in SEATS |-> 1]

\* whether a call resolved the hand by showdown (the only reader of strengths)
resolvedByShowdown(out) ==
  /\ out.error = ""
  /\ out.engine.state.phase = "ended"
  /\ Len(out.engine.events) >= 2
  /\ out.engine.events[Len(out.engine.events) - 1].type = "hand_summary"

\* the strengths the shuffled deck can give the seats evaluated at showdown,
\* `out` being what the call leaves with every strength the weakest
strengthsAt(out) ==
  LET seats == showdownSeats(out.engine.state, out.engine.state.pots)
  IN IF ~resolvedByShowdown(out) THEN {weakest}
     ELSE { f \in [SEATS -> 1 .. MaxRank] : \A s \in SEATS \ seats : f[s] = 1 }

Strengths(eng, action) == strengthsAt(applyAction(eng, action, weakest))

\* whether getLegalActions() offers the action: an entry of its type and,
\* for bet and raise, an amount within the entry's bounds
offered(st, action) ==
  /\ ~getLegalActionsThrows(st)
  /\ \E i \in 1 .. Len(getLegalActions(st)) :
       LET entry == getLegalActions(st)[i]
       IN /\ entry.type = action.type
          /\ entry.type \in {"bet", "raise"} =>
               /\ action.amount # null
               /\ entry.minAmount <= action.amount
               /\ action.amount <= entry.maxAmount

\* the amounts a caller may give an entry of getLegalActions()
amountsOf(entry) ==
  IF entry.type \in {"bet", "raise"} THEN entry.minAmount .. entry.maxAmount
  ELSE {null}

\* ---- what a caller hands proposeDecision, and what an adapter answers ----

PresetIds ==
  { MODEL_PRESET_REGISTRY[i].id : i \in 1 .. Len(MODEL_PRESET_REGISTRY) }
    \cup {"gpt-4o"}

\* the four action modes and a value that is none of them
ActionModes ==
  {ACTION_MODE.MANUAL, ACTION_MODE.AI_BASIC, ACTION_MODE.AI_STANDARD,
   ACTION_MODE.AI_EXPERIMENTAL, "auto"}

Credentials ==
  {Credential(FALSE, "", "")}
    \cup { Credential(TRUE, provider, apiKey) :
             provider \in adapterProviders, apiKey \in {"", "   ", "sk-key", "sk-other-key"} }

\* the [minAmount, maxAmount] pairs of a bet or raise entry
AmountBounds ==
  { b \in (1 .. MaxLegalAmount) \X (1 .. MaxLegalAmount) : b[1] <= b[2] }

\* the lists legalActionsForPlayer builds (minAmount <= maxAmount), and []
\* (the hand has ended)
LegalActionLists ==
  { <<>>,
    << LegalAction("fold", null, null), LegalAction("call", null, null) >>,
    << LegalAction("check", null, null) >> }
    \cup { << LegalAction("fold", null, null), LegalAction("call", null, null),
              LegalAction("raise", b[1], b[2]) >> : b \in AmountBounds }
    \cup { << LegalAction("check", null, null), LegalAction("bet", b[1], b[2]) >> :
             b \in AmountBounds }

ParamsInputs ==
  [ presetId : PresetIds, actionMode : ActionModes,
    credential : Credentials, legal_actions : LegalActionLists ]

ProposalAmounts == 0 .. (MaxLegalAmount + 1)

JsonActions ==
  { [kind |-> "absent", type |-> "", amount |-> Absent] }
    \cup { [kind |-> "string", type |-> t, amount |-> Absent] :
             t \in {"FOLD", "call", "RAISE", "CHECK"} }
    \cup { [kind |-> "object", type |-> t, amount |-> a] :
             t \in {"FOLD", "CALL", "RAISE", "raise", "CHECK"},
             a \in {Absent, JsonNull, JsonString}
                     \cup { JsonNumber(n) : n \in ProposalAmounts } }

Driver(key, weight) == [key |-> key, weight |-> weight]

DriverLists ==
  { << Driver("hand_strength", 60), Driver("pot_odds", 40) >>,
    << Driver("risk", 70), Driver("position", 30) >>,
    << Driver("hand_strength", 100) >>,
    << Driver("pot_odds", 0 - 10), Driver("position", 50) >>,
    << Driver("", 50), Driver("risk", 50) >>,
    << Driver("pot_odds", 110), Driver("position", 10) >>,
    << Driver("pot_odds", 20), Driver("position", 10) >> }

JsonReasons ==
  { [kind |-> "absent", drivers |-> <<>>, line |-> ""] }
    \cup { [kind |-> "object", drivers |-> d, line |-> l] :
             d \in DriverLists, l \in {"", "value bet"} }

JsonObjects ==
  [ action : JsonActions, reason : JsonReasons,
    confidence : {Absent, JsonNumber(50), JsonNumber(150)} ]

RawText(braced, secondOpens, wellFormed, json) ==
  [braced |-> braced, secondOpens |-> secondOpens,
   wellFormed |-> wellFormed, json |-> json]

\* prose, two objects, a braced text that is no JSON, a single object, and a
\* single object whose first "}" is followed by "{" inside a string
RawTexts ==
  LET any == CHOOSE o \in JsonObjects : o.action.kind = "absent"
      sound == [ action |-> [kind |-> "object", type |-> "CALL", amount |-> Absent],
                 reason |-> [kind |-> "object",
                             drivers |-> << Driver("hand_strength", 60),
                                            Driver("pot_odds", 40) >>,
                             line |-> "value bet"],
                 confidence |-> JsonNumber(50) ]
  IN { RawText(FALSE, FALSE, FALSE, any), RawText(TRUE, TRUE, FALSE, any),
       RawText(TRUE, FALSE, FALSE, any), RawText(TRUE, TRUE, TRUE, sound) }
       \cup { RawText(TRUE, FALSE, TRUE, o) : o \in JsonObjects }

ErrorMessage(httpError, code) == [httpError |-> httpError, code |-> code]

\* what adapter.invoke settles with: a raw text, or a thrown Error
AdapterOutcomes ==
  { [kind |-> "text", rawText |-> t, message |-> ErrorMessage(FALSE, 0)] :
      t \in RawTexts }
    \cup { [kind |-> "error", rawText |-> RawText(FALSE, FALSE, FALSE, <<>>),
            message |-> m] :
             m \in { ErrorMessage(TRUE, c) : c \in {400, 401, 403, 429, 500, 503} }
                     \cup {ErrorMessage(FALSE, 0), ErrorMessage(TRUE, 0)} }

NoParams ==
  [ presetId |-> "", actionMode |-> "", credential |-> Credential(FALSE, "", ""),
    legal_actions |-> <<>> ]

(* --------------------------- specification ---------------------------- *)

engine == Engine(state, events, actionHistory)

\* the caller holds no snapshot
NoSnapshot ==
  [held |-> FALSE, events |-> <<>>, actionHistory |-> <<>>,
   taken |-> <<>>, written |-> FALSE, reached |-> FALSE]

\* no page is open: the UI's variables stay empty
NoPage ==
  /\ turn = [phase |-> "none"]
  /\ seatSettings = <<>>
  /\ pageConfig = [startingStacks |-> <<>>]
  /\ llmState = [status |-> "none"]
  /\ requests = {}
  /\ lastApply = [by |-> ""]

\* the chips in the six stacks
stackTotal(st) == SumOver([s \in SEATS |-> st.players[s].stack], SEATS)

Init ==
  \E startingStacks \in StartingStacks :
    \E out \in {createEngine(startingStacks)} :
       /\ out.error = ""
       /\ state = out.engine.state
       /\ events = out.engine.events
       /\ actionHistory = out.engine.actionHistory
       /\ preHandTotal = SumOver(startingStacks, SEATS)
       /\ legalRun = TRUE
       /\ params = NoParams
       /\ pc = "idle"
       /\ result = NoResult
       /\ adapterCalls = 0
       /\ logged = <<>>
       /\ NoPage
       /\ snapshot = NoSnapshot

\* engine.applyAction(action); a call that throws before its first
\* assignment leaves every variable as it was
ApplyAction ==
  /\ Len(actionHistory) < MaxActions
  /\ \E action \in ActionInputs(state) :
       \E strength \in Strengths(engine, action) :
         \E out \in {applyAction(engine, action, strength)} :
            /\ state' = out.engine.state
            /\ events' = out.engine.events
            /\ actionHistory' = out.engine.actionHistory
            /\ UNCHANGED preHandTotal
            /\ legalRun' = IF out.engine = engine THEN legalRun
                           ELSE /\ legalRun
                                /\ action.actor = state.actionSeat
                                /\ offered(state, action)
                                /\ out.error = ""
            /\ UNCHANGED gatewayVars
            /\ UNCHANGED uiVars
            /\ UNCHANGED snapshot

\* engine.startNextHand()
StartNextHand ==
  \E out \in {startNextHand(engine)} :
     /\ state.phase = "ended" => state.handId < MaxHands
     /\ state' = out.engine.state
     /\ events' = out.engine.events
     /\ actionHistory' = out.engine.actionHistory
     /\ preHandTotal' = IF state.phase = "ended" THEN stackTotal(state)
                        ELSE preHandTotal
     /\ legalRun' = (legalRun /\ out.error = "")
     /\ UNCHANGED gatewayVars
     /\ UNCHANGED uiVars
     /\ UNCHANGED snapshot

Next == ApplyAction \/ StartNextHand

Spec == Init /\ [][Next]_vars

\* ---- a caller that holds a snapshot ----

\* the table the snapshot is taken from: six seats funded alike
SnapshotStacks == { [s \in SEATS |-> 2] }

InitSnapshot ==
  /\ Init
  /\ [s \in SEATS |-> state.players[s].stack + state.players[s].totalCommitted]
       \in SnapshotStacks

\* what the caller reads in the snapshot it holds: `state` is the engine's
\* own object, events and actionHistory are the arrays copied by getSnapshot
snapshotRead == Engine(state, snapshot.events, snapshot.actionHistory)

\* engine.getSnapshot(); `taken` keeps what the snapshot held when it was
\* returned, `written` and `reached` tell whether the caller has written to
\* it and whether a write changed the engine's state (the program holds
\* none of the three)
GetSnapshot ==
  /\ ~snapshot.held
  /\ snapshot' = [held |-> TRUE, events |-> events, actionHistory |-> actionHistory,
                  taken |-> engine, written |-> FALSE, reached |-> FALSE]
  /\ UNCHANGED engineVars
  /\ UNCHANGED gatewayVars
  /\ UNCHANGED uiVars

\* the parts of a snapshot the caller writes to
SnapshotParts == {"state", "players", "events", "actionHistory"}

\* the engine's state after the caller's write: snapshot.state.phase =
\* "ended", or snapshot.state.players[3].stack = 0 and .status = "out"
stateWrittenTo(st, part) ==
  IF part = "state" THEN [st EXCEPT !.phase = "ended"]
  ELSE IF part = "players"
  THEN [st EXCEPT !.players[3].stack = 0, !.players[3].status = "out"]
  ELSE st

\* the caller writes to a part of the snapshot it holds; to the arrays it
\* writes with length = 0
WriteSnapshot ==
  /\ snapshot.held
  /\ ~snapshot.written
  /\ \E part \in SnapshotParts :
       /\ state' = stateWrittenTo(state, part)
       /\ snapshot' = [snapshot EXCEPT
                         !.events = IF part = "events" THEN <<>> ELSE @,
                         !.actionHistory = IF part = "actionHistory" THEN <<>> ELSE @,
                         !.written = TRUE,
                         !.reached = (stateWrittenTo(state, part) # state)]
  /\ UNCHANGED <<events, actionHistory, preHandTotal, legalRun>>
  /\ UNCHANGED gatewayVars
  /\ UNCHANGED uiVars

NextSnapshot == ApplyAction \/ StartNextHand \/ GetSnapshot \/ WriteSnapshot

SpecSnapshot == InitSnapshot /\ [][NextSnapshot]_vars

\* ---- the gateway: one proposeDecision call ----

\* the gateway runs on the server, which holds no table: the engine's
\* variables stay empty
NoTable == [phase |-> "none"]

InitGate ==
  /\ state = NoTable
  /\ events = <<>>
  /\ actionHistory = <<>>
  /\ preHandTotal = 0
  /\ legalRun = TRUE
  /\ params = NoParams
  /\ pc = "idle"
  /\ result = NoResult
  /\ adapterCalls = 0
  /\ logged = <<>>
  /\ NoPage
  /\ snapshot = NoSnapshot

\* proposeDecision(params), run to its return, its throw or its await
ProposeDecision ==
  /\ pc = "idle"
  /\ \E p \in ParamsInputs :
       LET out == proposeDecisionStart(p)
       IN /\ params' = p
          /\ pc' = out.pc
          /\ result' = out.result
          /\ adapterCalls' = IF out.pc = "awaiting" THEN adapterCalls + 1
                             ELSE adapterCalls
          /\ logged' = logOfStart(p)
  /\ UNCHANGED engineVars
  /\ UNCHANGED uiVars
  /\ UNCHANGED snapshot

\* adapter.invoke settles and proposeDecision runs on to its return
AdapterSettles ==
  /\ pc = "awaiting"
  /\ \E settled \in AdapterOutcomes :
       /\ result' = proposeDecisionResume(params, settled)
       /\ logged' = logged \o logOfResume(params, settled)
       /\ pc' = "returned"
  /\ UNCHANGED <<params, adapterCalls>>
  /\ UNCHANGED engineVars
  /\ UNCHANGED uiVars
  /\ UNCHANGED snapshot

NextGate == ProposeDecision \/ AdapterSettles

SpecGate == InitGate /\ [][NextGate]_vars

\* ---- the page: renderActions and the handlers of app.js ----

\* the page shows a table of two funded seats, 2 and 3; the stacks of the
\* other four seats are 0
UiSeats == {2, 3}
\* the stacks the settings of a funded seat can name
UiStacks == {100, 200}
\* clicks are explored while the engine's actionHistory is shorter
MaxUiActions == 2
\* Next Hand is explored while handId < MaxUiHands
MaxUiHands == 2
\* Next Hand builds a new engine while fewer than MaxUiEngines were built
MaxUiEngines == 2
\* the seat that acts first in hand 1: the dealer is seat 1, the blinds are
\* seats 2 and 3, and firstActiveFrom(4) is seat 2
UiFirstSeat == 2

\* what the page reads of the engine: the fields of turnKey, the list
\* getLegalActions returns, and `built`, which tells the engines the page
\* has built apart (the page itself cannot see it)
UiTurn(built, handId, phase, actionSeat, historyLen, legal) ==
  [built |-> built, handId |-> handId, phase |-> phase,
   actionSeat |-> actionSeat, historyLen |-> historyLen, legal |-> legal]

\* `${handId}:${phase}:${actionSeat}:${actionHistory.length}`
turnKey(t) == <<t.handId, t.phase, t.actionSeat, t.historyLen>>

\* the lists getLegalActions returns while a hand is played
UiLegalLists ==
  { << LegalAction("fold", null, null), LegalAction("call", null, null),
       LegalAction("raise", 2, 3) >>,
    << LegalAction("check", null, null), LegalAction("bet", 1, 2) >> }

SeatSetting(stack, actionMode) == [stack |-> stack, actionMode |-> actionMode]

SeatSettingInputs ==
  { SeatSetting(stack, mode) :
      stack \in UiStacks, mode \in {"manual", "ai_experimental"} }

normalizeActionModeForUI(actionMode) ==
  IF actionMode \in {"ai_basic", "ai_standard", "ai_experimental"} THEN "ai"
  ELSE IF actionMode = "" THEN "manual" ELSE actionMode

isAiMode(settings, t) ==
  normalizeActionModeForUI(settings[t.actionSeat].actionMode) # "manual"

LlmState(key, status, proposal) ==
  [turnKey |-> key, status |-> status, proposal |-> proposal]

\* llmState.turnKey = null
NoTurnKey == <<>>

\* llmState.proposal = null
NoProposal == [action |-> [type |-> "", amount |-> undefined]]

\* a request in flight: the turnKey and the legal list its callbacks close
\* over, and the engine it was made for
Request(t) ==
  [turnKey |-> turnKey(t), legal |-> t.legal, built |-> t.built]

\* what requestLlmAction resolves with; it rejects everything else
UiProposals ==
  { [type |-> type, amount |-> amount] :
      type \in {"FOLD", "CALL", "RAISE"}, amount \in {undefined, 3} }

offersType(legalActions, type) ==
  \E i \in DOMAIN legalActions : legalActions[i].type = type

\* renderActions: what it does to llmState and to the requests in flight
Rendered(llm, reqs) == [llmState |-> llm, requests |-> reqs]

requestIfIdle(t, settings, llm, reqs) ==
  IF isAiMode(settings, t) /\ llm.status = "idle"
  THEN Rendered([llm EXCEPT !.status = "loading"], reqs \cup {Request(t)})
  ELSE Rendered(llm, reqs)

renderActions(t, settings, llm, reqs) ==
  IF t.phase = "ended" THEN Rendered(llm, reqs)
  ELSE IF llm.turnKey # turnKey(t)
  THEN requestIfIdle(t, settings, LlmState(turnKey(t), "idle", NoProposal), reqs)
  ELSE requestIfIdle(t, settings, llm, reqs)

\* the panel with Follow AI and Take control is on the page
proposalPanelShown ==
  /\ turn.phase # "ended"
  /\ isAiMode(seatSettings, turn)
  /\ llmState.status = "proposed"

\* the buttons of the legal actions are on the page
manualButtonsShown ==
  /\ turn.phase # "ended"
  /\ ~isAiMode(seatSettings, turn) \/ llmState.status \notin {"loading", "proposed"}

\* the action Follow AI hands to engine.applyAction
followedAction ==
  [type |-> llmState.proposal.action.type,
   amount |-> IF llmState.proposal.action.type \in {"raise", "bet"}
                 /\ llmState.proposal.action.amount # undefined
                 /\ llmState.proposal.action.amount > 0
              THEN llmState.proposal.action.amount ELSE null]

\* engine.applyAction takes the action: its type is on offer and a bet or
\* raise lies in the range
uiAccepts(t, action) ==
  /\ offersType(t.legal, action.type)
  /\ action.type \in {"bet", "raise"} =>
       /\ action.amount # null
       /\ findLegal(t.legal, action.type).minAmount <= action.amount
       /\ action.amount <= findLegal(t.legal, action.type).maxAmount

\* the turns engine.applyAction can leave behind: the hand has ended, or
\* the other seat is to act
TurnsAfter(t) ==
  { UiTurn(t.built, t.handId, "ended", t.actionSeat, t.historyLen + 1, <<>>) }
    \cup { UiTurn(t.built, t.handId, t.phase, seat, t.historyLen + 1, legal) :
             seat \in UiSeats \ {t.actionSeat}, legal \in UiLegalLists }

\* the first turn of a new engine
FirstTurns(built) ==
  { UiTurn(built, 1, "preflop", UiFirstSeat, 0, legal) :
      legal \in { l \in UiLegalLists : offersType(l, "raise") } }

needsReset ==
  \E seat \in UiSeats :
    seatSettings[seat].stack # pageConfig.startingStacks[seat]

\* Start Game: loadEngine builds the engine and renders
InitUI ==
  /\ state = NoTable
  /\ events = <<>>
  /\ actionHistory = <<>>
  /\ preHandTotal = 0
  /\ legalRun = TRUE
  /\ params = NoParams
  /\ pc = "idle"
  /\ result = NoResult
  /\ adapterCalls = 0
  /\ logged = <<>>
  /\ seatSettings \in [UiSeats -> SeatSettingInputs]
  /\ pageConfig = [startingStacks |-> [seat \in UiSeats |-> seatSettings[seat].stack]]
  /\ turn \in FirstTurns(1)
  /\ \E out \in {renderActions(turn, seatSettings,
                               LlmState(NoTurnKey, "idle", NoProposal), {})} :
       /\ llmState = out.llmState
       /\ requests = out.requests
  /\ lastApply = [by |-> "", stale |-> FALSE]
  /\ snapshot = NoSnapshot

\* a button of a legal action is clicked; an amount the engine throws on
\* leaves everything as it was
ClickLegalAction ==
  /\ manualButtonsShown
  /\ turn.historyLen < MaxUiActions
  /\ \E next \in TurnsAfter(turn) :
       \E out \in {renderActions(next, seatSettings, llmState, requests)} :
          /\ turn' = next
          /\ llmState' = out.llmState
          /\ requests' = out.requests
  /\ lastApply' = [by |-> "legal action button", stale |-> FALSE]
  /\ UNCHANGED <<seatSettings, pageConfig>>
  /\ UNCHANGED engineVars
  /\ UNCHANGED gatewayVars
  /\ UNCHANGED snapshot

\* Follow AI is clicked; an action the engine throws on leaves everything
\* as it was
ClickFollowAI ==
  /\ proposalPanelShown
  /\ turn.historyLen < MaxUiActions
  /\ uiAccepts(turn, followedAction)
  /\ \E next \in TurnsAfter(turn) :
       \E out \in {renderActions(next, seatSettings,
                                 LlmState(NoTurnKey, "idle", NoProposal), requests)} :
          /\ turn' = next
          /\ llmState' = out.llmState
          /\ requests' = out.requests
  /\ lastApply' = [by |-> "Follow AI",
                   stale |-> llmState.proposal.request # Request(turn)]
  /\ UNCHANGED <<seatSettings, pageConfig>>
  /\ UNCHANGED engineVars
  /\ UNCHANGED gatewayVars
  /\ UNCHANGED snapshot

\* Take control is clicked
ClickTakeControl ==
  /\ proposalPanelShown
  /\ \E out \in {renderActions(turn, seatSettings,
                               LlmState(turnKey(turn), "manual", NoProposal),
                               requests)} :
       /\ llmState' = out.llmState
       /\ requests' = out.requests
  /\ UNCHANGED <<turn, seatSettings, pageConfig, lastApply>>
  /\ UNCHANGED engineVars
  /\ UNCHANGED gatewayVars
  /\ UNCHANGED snapshot

\* what the callbacks of a request leave in llmState: .then with a proposal
\* that resolves, .then with one that does not, .catch
settledLlmState(request, resolved) ==
  IF resolved.ok
  THEN LlmState(request.turnKey, "proposed",
                [action |-> resolved.action, request |-> request])
  ELSE LlmState(request.turnKey, "manual", NoProposal)

\* a request settles: its promise resolves with a proposal or rejects
RequestSettles ==
  /\ \E request \in requests :
       \E resolved \in { resolveLlmDecision([action |-> proposal], request.legal) :
                           proposal \in UiProposals }
                         \cup {[ok |-> FALSE, action |-> NoProposal.action]} :
         \E out \in {renderActions(turn, seatSettings,
                                   settledLlmState(request, resolved),
                                   requests \ {request})} :
            /\ llmState' = out.llmState
            /\ requests' = out.requests
  /\ UNCHANGED <<turn, seatSettings, pageConfig, lastApply>>
  /\ UNCHANGED engineVars
  /\ UNCHANGED gatewayVars
  /\ UNCHANGED snapshot

\* the settings of a seat are saved
SaveSettings ==
  /\ \E seat \in UiSeats, setting \in SeatSettingInputs :
       /\ seatSettings' = [seatSettings EXCEPT ![seat] = setting]
       /\ \E out \in {renderActions(turn, seatSettings', llmState, requests)} :
            /\ llmState' = out.llmState
            /\ requests' = out.requests
  /\ UNCHANGED <<turn, pageConfig, lastApply>>
  /\ UNCHANGED engineVars
  /\ UNCHANGED gatewayVars
  /\ UNCHANGED snapshot

\* Next Hand is clicked: a new engine when a stack was changed, else
\* engine.startNextHand()
ClickNextHand ==
  /\ turn.phase = "ended"
  /\ IF needsReset
     THEN /\ turn.built < MaxUiEngines
          /\ pageConfig' = [startingStacks |->
                              [seat \in UiSeats |-> seatSettings[seat].stack]]
          /\ turn' \in FirstTurns(turn.built + 1)
     ELSE /\ turn.handId < MaxUiHands
          /\ UNCHANGED pageConfig
          /\ turn' \in { UiTurn(turn.built, turn.handId + 1, "preflop", seat,
                                turn.historyLen, legal) :
                           seat \in UiSeats,
                           legal \in { l \in UiLegalLists : offersType(l, "raise") } }
  /\ \E out \in {renderActions(turn', seatSettings, llmState, requests)} :
       /\ llmState' = out.llmState
       /\ requests' = out.requests
  /\ UNCHANGED <<seatSettings, lastApply>>
  /\ UNCHANGED engineVars
  /\ UNCHANGED gatewayVars
  /\ UNCHANGED snapshot

NextUI ==
  \/ ClickLegalAction
  \/ ClickFollowAI
  \/ ClickTakeControl
  \/ RequestSettles
  \/ SaveSettings
  \/ ClickNextHand

SpecUI == InitUI /\ [][NextUI]_vars


(* ------------------------- claims: the engine ------------------------- *)

\* stack + totalCommitted over the six seats
chipsAccounted(st) ==
  SumOver([s \in SEATS |-> st.players[s].stack + st.players[s].totalCommitted], SEATS)

\* C1 -- chip conservation: after every sequence of legal actions the sum
\* over the six seats of stack + totalCommitted equals the total of the
\* stacks before the hand's blinds were posted, in every state of the hand,
\* the state with phase = ended after the pot has been awarded included.
C1_ChipConservation ==
  legalRun => chipsAccounted(state) = preHandTotal

\* C2 -- legal-action soundness: in every reachable state with
\* phase # ended, applyAction by the action seat completes without throwing
\* for every entry of getLegalActions(), with amount null for fold, check
\* and call and with any amount in [minAmount, maxAmount] for bet and raise.
C2_LegalActionsAccepted ==
  (state.phase # "ended" /\ ~getLegalActionsThrows(state)) =>
    \A i \in 1 .. Len(getLegalActions(state)) :
      \A amount \in amountsOf(getLegalActions(state)[i]) :
        LET action == Action(state.actionSeat, getLegalActions(state)[i].type, amount)
        IN \A strength \in Strengths(engine, action) :
             applyAction(engine, action, strength).error = ""

\* C3 -- legal-action exclusivity: in every reachable state applyAction
\* throws for every action of the action seat that matches no entry of
\* getLegalActions(): its type is not in the list, or its bet/raise amount
\* lies outside the entry's [minAmount, maxAmount].
C3_UnofferedActionsThrow ==
  \A action \in ActionInputs(state) :
    (action.actor = state.actionSeat /\ ~offered(state, action)) =>
      \A strength \in Strengths(engine, action) :
        applyAction(engine, action, strength).error # ""

\* C4 -- failure atomicity: whenever applyAction or startNextHand throws,
\* the engine's state, event log and action history are exactly what they
\* were before the call.
C4_FailureAtomicity ==
  /\ \A action \in ActionInputs(state) :
       \A strength \in Strengths(engine, action) :
         applyAction(engine, action, strength).error # ""
           => applyAction(engine, action, strength).engine = engine
  /\ startNextHand(engine).error # "" => startNextHand(engine).engine = engine

\* the first seat with chips found scanning clockwise from the seat after `seat`
nextFundedSeat(st, seat) ==
  LET hits == { i \in 1 .. 6 : st.players[(seat + i) % 6].stack > 0 }
  IN (seat + (CHOOSE i \in hits : \A j \in hits : i <= j)) % 6

\* C5 -- blind skipping: on startNextHand the dealer seat advances by exactly
\* one seat (mod 6), and the small and the big blind go to the next two
\* seats with stack > 0 found scanning clockwise from the dealer, seats with
\* stack 0 being skipped.
C5_BlindsSkipEmptySeats ==
  LET out == startNextHand(engine)
      dealer == (state.dealerSeat + 1) % 6
  IN (/\ state.phase = "ended"
      /\ out.error = ""
      /\ Cardinality({ s \in SEATS : state.players[s].stack > 0 }) >= 2) =>
       /\ out.engine.state.dealerSeat = dealer
       /\ out.engine.state.smallBlindSeat = nextFundedSeat(state, dealer)
       /\ out.engine.state.bigBlindSeat =
            nextFundedSeat(state, nextFundedSeat(state, dealer))

(* ------------------------- claims: the gateway ------------------------ *)

\* the actions a validated Decision can carry to the gate
ProposedActions ==
  { [type |-> t, amount |-> a] :
      t \in {"FOLD", "CALL", "RAISE"}, a \in {undefined} \cup ProposalAmounts }

hasLegal(legalActions, type) ==
  \E i \in 1 .. Len(legalActions) : legalActions[i].type = type

\* a RAISE with an amount inside the bounds of a bet or raise entry
raiseInRange(a, legalActions) ==
  /\ a.type = "RAISE"
  /\ a.amount # undefined
  /\ \E i \in 1 .. Len(legalActions) :
       /\ legalActions[i].type \in {"bet", "raise"}
       /\ legalActions[i].minAmount <= a.amount
       /\ a.amount <= legalActions[i].maxAmount

\* C7 -- authority gate: under L1_BASIC every RAISE is rejected with
\* capability_limit whether or not a bet or raise is legal; for every other
\* proposed action and legal-action list the gate answers the same under
\* L1_BASIC, L2_STANDARD and L3_EXPERIMENTAL; a RAISE with a legal in-range
\* amount is accepted under L2_STANDARD and L3_EXPERIMENTAL alike; and a
\* proposeDecision call ends in capability_limit under an L1_BASIC preset only.
C7_AuthorityGate ==
  /\ \A a \in ProposedActions :
       LET tier1 == enforceSemanticGate(a, params.legal_actions, "L1_BASIC")
           tier2 == enforceSemanticGate(a, params.legal_actions, "L2_STANDARD")
           tier3 == enforceSemanticGate(a, params.legal_actions, "L3_EXPERIMENTAL")
       IN /\ a.type = "RAISE" => tier1 = GateVerdict(FALSE, "capability_limit")
          /\ a.type # "RAISE" => tier1 = tier2
          /\ tier2 = tier3
          /\ raiseInRange(a, params.legal_actions) => (tier2.valid /\ tier3.valid)
  /\ (pc = "returned" /\ result.type = "REJECTED"
        /\ result.reason = "capability_limit")
       => getPresetById(params.presetId).capability = "L1_BASIC"
  /\ (pc = "returned" /\ result.type = "ACCEPTED"
        /\ result.decision.action.type = "RAISE")
       => getPresetById(params.presetId).capability # "L1_BASIC"

\* a call under an L1_BASIC preset ended in capability_limit although the
\* legal actions offer a raise
C7_Witness ==
  /\ pc = "returned"
  /\ result = Rejected("capability_limit")
  /\ getPresetById(params.presetId).capability = "L1_BASIC"
  /\ hasLegal(params.legal_actions, "raise")
  /\ adapterCalls = 1

\* C8 -- authority cannot be raised by switching models: proposeDecision
\* returns ACCEPTED with a RAISE only when the action mode is ai_standard or
\* ai_experimental and the preset's capability is allowed for that mode (so
\* never under manual or ai_basic, whatever the preset); and under an AI mode
\* a preset whose capability exceeds what the mode permits is rejected with
\* invalid_ai_config before any transport call.
C8_AuthorityBoundedByMode ==
  LET preset == getPresetById(params.presetId)
  IN /\ (pc = "returned" /\ result.type = "ACCEPTED"
           /\ result.decision.action.type = "RAISE")
          => /\ params.actionMode \in {"ai_standard", "ai_experimental"}
             /\ preset.capability
                  \in ACTION_MODE_ALLOWED_CAPABILITIES[params.actionMode]
     /\ (pc # "idle" /\ preset # NoPreset
           /\ params.actionMode \in {"ai_basic", "ai_standard", "ai_experimental"}
           /\ preset.capability
                \notin ACTION_MODE_ALLOWED_CAPABILITIES[params.actionMode])
          => /\ pc = "returned"
             /\ result = Rejected("invalid_ai_config")
             /\ adapterCalls = 0

\* ai_basic with an L3_EXPERIMENTAL preset and a usable credential: rejected
\* with invalid_ai_config, the adapter never called
C8_Witness ==
  /\ pc = "returned"
  /\ params.actionMode = "ai_basic"
  /\ getPresetById(params.presetId).capability = "L3_EXPERIMENTAL"
  /\ ~isCredentialFailure(credentialResult(params.credential,
                                           getPresetById(params.presetId)))
  /\ hasLegal(params.legal_actions, "raise")
  /\ result = Rejected("invalid_ai_config")
  /\ adapterCalls = 0

\* what C9 calls legal for a proposed action
legalFor(a, legalActions) ==
  \/ a.type = "FOLD" /\ hasLegal(legalActions, "fold")
  \/ a.type = "CALL" /\ (hasLegal(legalActions, "check") \/ hasLegal(legalActions, "call"))
  \/ raiseInRange(a, legalActions)

\* C9 -- gate legality: for an action that passes the authority check the
\* gate accepts exactly when FOLD and fold is legal, or CALL and check or
\* call is legal (no amount needed; executed as check when check is legal,
\* otherwise as call), or RAISE and bet or raise is legal with the amount
\* present and minAmount <= amount <= maxAmount; every other case is rejected
\* with illegal_action; and an ACCEPTED proposal carries such an action.
C9_GateLegality ==
  /\ \A a \in ProposedActions :
       \A capability \in {"L1_BASIC", "L2_STANDARD", "L3_EXPERIMENTAL"} :
         LET verdict == enforceSemanticGate(a, params.legal_actions, capability)
             executed == resolveLlmDecision([action |-> a], params.legal_actions)
         IN ~(capability = "L1_BASIC" /\ a.type = "RAISE") =>
              /\ verdict.valid <=> legalFor(a, params.legal_actions)
              /\ ~verdict.valid => verdict.reason = "illegal_action"
              /\ (verdict.valid /\ a.type = "CALL") =>
                   /\ executed.ok
                   /\ executed.action.type =
                        IF hasLegal(params.legal_actions, "check") THEN "check"
                        ELSE "call"
  /\ (pc = "returned" /\ result.type = "ACCEPTED")
       => legalFor(result.decision.action, params.legal_actions)

\* an ACCEPTED RAISE whose amount is the maximum of the bet the list offers
C9_Witness ==
  /\ pc = "returned"
  /\ result.type = "ACCEPTED"
  /\ result.decision.action.type = "RAISE"
  /\ hasLegal(params.legal_actions, "bet")
  /\ result.decision.action.amount = findLegal(params.legal_actions, "bet").maxAmount
  /\ findLegal(params.legal_actions, "bet").minAmount
       < findLegal(params.legal_actions, "bet").maxAmount

RejectReasons ==
  {"invalid_ai_config", "missing_credential", "provider_error", "invalid_json",
   "schema_mismatch", "illegal_action", "capability_limit"}

\* C10 -- pipeline totality: for every preset id, action mode (unrecognized
\* ones included), credential, adapter behaviour and raw output,
\* proposeDecision returns exactly one of ACCEPTED, REJECTED or FALLBACK and
\* never throws; every REJECTED result carries a reason code and
\* allowManualFallback = true.
C10_PipelineTotal ==
  /\ pc # "thrown"
  /\ pc = "returned" =>
       /\ result.type \in {"ACCEPTED", "REJECTED", "FALLBACK"}
       /\ result.type = "REJECTED" =>
            (result.reason \in RejectReasons /\ result.allowManualFallback)

\* ---- C11: the order of the steps ----

RecognizedModes == {"manual", "ai_basic", "ai_standard", "ai_experimental"}

\* a result reduced to its type and reason code
verdictOf(r) ==
  [type |-> r.type, reason |-> IF r.type = "ACCEPTED" THEN "" ELSE r.reason]

unknownPreset(p) ==
  \A i \in 1 .. Len(MODEL_PRESET_REGISTRY) : MODEL_PRESET_REGISTRY[i].id # p.presetId

capabilityExceedsMode(p) ==
  getPresetById(p.presetId).capability
    \notin ACTION_MODE_ALLOWED_CAPABILITIES[p.actionMode]

\* missing, for another provider, or empty
credentialUnusable(p) ==
  \/ ~p.credential.present
  \/ p.credential.provider # getPresetById(p.presetId).provider
  \/ trim(p.credential.apiKey) = ""

\* what the steps before the transport call decide, in the order of the
\* claim; "transport" when all of them pass
decidedBeforeTransport(p) ==
  IF unknownPreset(p) THEN [type |-> "REJECTED", reason |-> "invalid_ai_config"]
  ELSE IF p.actionMode = "manual" THEN [type |-> "FALLBACK", reason |-> "manual_mode"]
  ELSE IF capabilityExceedsMode(p)
  THEN [type |-> "REJECTED", reason |-> "invalid_ai_config"]
  ELSE IF credentialUnusable(p)
  THEN [type |-> "REJECTED", reason |-> "missing_credential"]
  ELSE [type |-> "transport", reason |-> ""]

\* what the steps from the transport call on decide, in the order of the
\* claim: a step fails when the step's own check rejects what it is given
decidedAfterTransport(p, settled) ==
  LET decision == validateDecisionSchema(
                    normalizeDecisionSchema(
                      parseRawTextAsJson(settled.rawText).parsed)).decision
  IN IF settled.kind = "error"
     THEN (IF settled.message.httpError /\ settled.message.code \in {401, 403, 429}
           THEN [type |-> "REJECTED", reason |-> "missing_credential"]
           ELSE [type |-> "REJECTED", reason |-> "provider_error"])
     ELSE IF parseRawTextAsJson(settled.rawText).type = "REJECTED"
     THEN [type |-> "REJECTED", reason |-> "invalid_json"]
     ELSE IF \/ validateDecisionSchema(
                  normalizeDecisionSchema(
                    parseRawTextAsJson(settled.rawText).parsed)).type = "REJECTED"
             \/ validateDecision(decision) # ""
     THEN [type |-> "REJECTED", reason |-> "schema_mismatch"]
     ELSE IF getPresetById(p.presetId).capability = "L1_BASIC"
             /\ decision.action.type = "RAISE"
     THEN [type |-> "REJECTED", reason |-> "capability_limit"]
     ELSE IF ~legalFor(decision.action, p.legal_actions)
     THEN [type |-> "REJECTED", reason |-> "illegal_action"]
     ELSE [type |-> "ACCEPTED", reason |-> ""]

stepsBeforeTransportPass(p) ==
  /\ ~unknownPreset(p)
  /\ p.actionMode \in RecognizedModes \ {"manual"}
  /\ ~capabilityExceedsMode(p)
  /\ ~credentialUnusable(p)

\* C12 -- single transport call: in one proposeDecision invocation the
\* adapter is invoked exactly once when the preset, mode, mode x authority
\* and credential steps all pass and never otherwise, and the count stays at
\* one after a transport fault or a rejected response (no retry).
C12_SingleTransportCall ==
  /\ adapterCalls \in {0, 1}
  /\ pc # "idle" =>
       adapterCalls = IF stepsBeforeTransportPass(params) THEN 1 ELSE 0
  /\ pc = "idle" => adapterCalls = 0

\* the call returned after a transport fault having invoked the adapter once
C12_Witness ==
  /\ pc = "returned"
  /\ result = Rejected("provider_error")
  /\ stepsBeforeTransportPass(params)
  /\ adapterCalls = 1

\* C13 -- manual mode: with the action mode manual and a known preset,
\* proposeDecision returns FALLBACK(manual_mode), not REJECTED, and the
\* adapter is not invoked, whatever the credential, the preset's capability
\* and the legal actions are.
C13_ManualModeFallsBack ==
  (pc # "idle" /\ params.actionMode = ACTION_MODE.MANUAL /\ ~unknownPreset(params)) =>
    /\ pc = "returned"
    /\ result = Fallback("manual_mode")
    /\ adapterCalls = 0

\* manual mode with an L3_EXPERIMENTAL preset, a usable credential and a
\* raise on offer
C13_Witness ==
  /\ pc = "returned"
  /\ params.actionMode = ACTION_MODE.MANUAL
  /\ getPresetById(params.presetId).capability = "L3_EXPERIMENTAL"
  /\ ~credentialUnusable(params)
  /\ hasLegal(params.legal_actions, "raise")
  /\ result.type = "FALLBACK"

\* the amount a raw action proposes: its number, `undefined` when it has none
proposedAmount(rawAction) ==
  IF rawAction.amount.kind = "number" THEN rawAction.amount.value ELSE undefined

\* C14 -- no substitution: whatever the adapter settles with, an ACCEPTED
\* result carries the action of the raw output -- its type up to letter case
\* and its amount -- and a result that is not ACCEPTED carries no action at
\* all, so a rejected action is never replaced by another one.
C14_NoSubstitution ==
  pc = "awaiting" =>
    \A settled \in AdapterOutcomes :
      LET outcome == proposeDecisionResume(params, settled)
      IN /\ outcome.type = "ACCEPTED" =>
              /\ settled.kind = "text"
              /\ outcome.decision.action.type
                   = toUpperCase(settled.rawText.json.action.type)
              /\ outcome.decision.action.amount
                   = proposedAmount(settled.rawText.json.action)
         /\ outcome.type # "ACCEPTED" => "decision" \notin DOMAIN outcome

\* an ACCEPTED RAISE to the minimum of the raise on offer
C14_Witness ==
  /\ pc = "returned"
  /\ adapterCalls = 1
  /\ result.type = "ACCEPTED"
  /\ result.decision.action.type = "RAISE"
  /\ hasLegal(params.legal_actions, "raise")
  /\ result.decision.action.amount = findLegal(params.legal_actions, "raise").minAmount


(* --------------------------- claims: the page ------------------------- *)

\* the action on offer in the proposal panel can be executed under the legal
\* actions its request was made with
validatedForRequest(proposal) ==
  /\ offersType(proposal.request.legal, proposal.action.type)
  /\ proposal.action.amount # undefined =>
       /\ findLegal(proposal.request.legal, proposal.action.type).minAmount
            <= proposal.action.amount
       /\ proposal.action.amount
            <= findLegal(proposal.request.legal, proposal.action.type).maxAmount

\* C15 -- LLM output is never auto-applied: engine.applyAction runs only from
\* a click on Follow AI or on a legal-action button; the proposal in the
\* panel was validated against the legal actions of the turn it was
\* requested for; and the proposal in the panel, and a proposal that was
\* followed, was requested for the very turn it is offered for or applied to.
C15_NeverAutoApplied ==
  /\ lastApply.by \in {"", "Follow AI", "legal action button"}
  /\ proposalPanelShown => validatedForRequest(llmState.proposal)
  /\ proposalPanelShown => llmState.proposal.request = Request(turn)
  /\ ~lastApply.stale


(* ----------------------- claims: pots and showdown -------------------- *)

\* the hand has just been resolved by a showdown
showdownResolved ==
  /\ state.phase = "ended"
  /\ Len(events) >= 2
  /\ events[Len(events) - 1].type = "hand_summary"

\* the hand_summary of the showdown
lastSummary == events[Len(events) - 1].data

\* the rank the summary shows for a seat
shownRank(seat) ==
  LET k == CHOOSE k \in DOMAIN lastSummary.showdown :
             lastSummary.showdown[k].seat = seat
  IN lastSummary.showdown[k].handRank

\* the seats that tie for a pot: the eligible seats of the best rank
tiedWinners(pot) ==
  { s \in SeqRange(pot.eligibleSeats) :
      \A o \in SeqRange(pot.eligibleSeats) : shownRank(s) >= shownRank(o) }

\* how many seats lie clockwise between the seat after the dealer and `seat`
stepsFromDealer(seat, dealerSeat) == (seat + SEAT_COUNT - (dealerSeat + 1)) % SEAT_COUNT

\* the share of a tied winner: floor(amount / n), and one odd chip more for
\* the first (amount mod n) winners clockwise from the seat after the dealer
tieShare(amount, winners, seat, dealerSeat) ==
  (amount \div Cardinality(winners))
    + (IF Cardinality({ w \in winners :
                          stepsFromDealer(w, dealerSeat)
                            < stepsFromDealer(seat, dealerSeat) })
            < amount % Cardinality(winners)
       THEN 1 ELSE 0)

\* what the summary says a pot paid
paidBy(pot) ==
  { <<pot.winners[j].seat, pot.winners[j].amount>> : j \in DOMAIN pot.winners }

\* C16 -- showdown tie: after a showdown every contested pot has paid each of
\* its n tied winners floor(amount / n) plus one odd chip for the first
\* (amount mod n) of them clockwise from the seat after the dealer, nobody
\* else, and so exactly the pot; a 101-chip pot with the dealer at seat 0
\* and two tied winners pays 51 to the winner nearest clockwise of seat 0
\* and 50 to the other.
C16_ShowdownTie ==
  /\ showdownResolved =>
       \A i \in DOMAIN lastSummary.pots :
         LET pot == lastSummary.pots[i]
             winners == tiedWinners(pot)
         IN pot.eligibleSeats # <<>> =>
              /\ paidBy(pot) = { <<s, tieShare(pot.amount, winners, s, state.dealerSeat)>> :
                                   s \in winners }
              /\ Len(pot.winners) = Cardinality(winners)
              /\ SumOver([s \in SEATS |->
                            IF s \in winners
                            THEN tieShare(pot.amount, winners, s, state.dealerSeat)
                            ELSE 0], SEATS) = pot.amount
  /\ \A a \in SEATS, b \in SEATS :
       stepsFromDealer(a, 0) < stepsFromDealer(b, 0) =>
          distributeOddChips(101, {a, b}, 0) = (a :> 51) @@ (b :> 50)

\* a showdown in which two seats tie for a pot of an odd number of chips
C16_Witness ==
  /\ showdownResolved
  /\ \E i \in DOMAIN lastSummary.pots :
       /\ lastSummary.pots[i].amount % 2 = 1
       /\ Cardinality(tiedWinners(lastSummary.pots[i])) = 2
       /\ Len(lastSummary.pots[i].winners) = 2


\* the distinct positive commitment levels of the seats
levelsOf(players) == { players[s].totalCommitted : s \in SEATS } \ {0}

\* the levels in ascending order, from index 0 on, below them the level 0
ascending(levels) ==
  [i \in 0 .. Cardinality(levels) |->
     IF i = 0 THEN 0
     ELSE CHOOSE l \in levels : Cardinality({ m \in levels : m < l }) = i - 1]

\* the seats committed at least to a level
contributorsAt(players, level) ==
  { s \in SEATS : players[s].totalCommitted >= level }

\* the pots are the side pots of the players, `level` being their levels
sidePotsAt(pots, players, level) ==
  /\ DOMAIN pots = DOMAIN level \ {0}
  /\ \A i \in DOMAIN pots :
       /\ pots[i].amount
            = (level[i] - level[i - 1]) * Cardinality(contributorsAt(players, level[i]))
       /\ SeqRange(pots[i].eligibleSeats)
            = { s \in contributorsAt(players, level[i]) :
                  players[s].status \notin {"folded", "out"} }
       /\ Len(pots[i].eligibleSeats) = Cardinality(SeqRange(pots[i].eligibleSeats))
       /\ i > 1 => SeqRange(pots[i].eligibleSeats)
                     \subseteq SeqRange(pots[i - 1].eligibleSeats)
  /\ SumOver([s \in SEATS |->
                IF s + 1 \in DOMAIN pots THEN pots[s + 1].amount ELSE 0], SEATS)
       = SumOver([s \in SEATS |-> players[s].totalCommitted], SEATS)

sidePotsOf(pots, players) ==
  sidePotsAt(pots, players, ascending(levelsOf(players)))

\* computePots returns the side pots of the players
potsComputed(players) == sidePotsOf(computePots(players), players)

\* what computePots is tried on, seat by seat: nothing committed (in the hand
\* or out of it), 1 or 3 chips committed by a seat in the hand or folded, and
\* 1 chip committed by a seat that is out
PotSeats ==
  { <<0, "active">>, <<0, "out">>, <<1, "out">> }
    \cup ({1, 3} \X {"active", "folded"})

\* the state in which the combinations are gone through, once: the first one
\* of the table of the first starting stacks
potsTriedHere ==
  /\ actionHistory = <<>>
  /\ state.handId = 1
  /\ [s \in SEATS |-> state.players[s].stack + state.players[s].totalCommitted]
       = CHOOSE stacks \in StartingStacks : TRUE

\* C17 -- side pots: for every combination of commitments and statuses of the
\* six seats, computePots yields one pot per distinct positive level in
\* ascending order, of amount (level - previous level) x contributors,
\* eligible to exactly the contributors neither folded nor out; the amounts
\* sum to the total committed and the eligible sets are nested; and the pots
\* a showdown leaves in the state are these pots of its players.
C17_SidePots ==
  /\ potsTriedHere =>
       \A seats \in [SEATS -> PotSeats] :
         potsComputed([s \in SEATS |-> [seat |-> s, totalCommitted |-> seats[s][1],
                                        status |-> seats[s][2]]])
  /\ potsComputed(state.players)
  /\ showdownResolved => sidePotsOf(state.pots, state.players)

\* a showdown over a main pot and a side pot, a seat that folded having paid
\* into the main pot without being eligible for it
C17_Witness ==
  /\ showdownResolved
  /\ Len(state.pots) >= 2
  /\ \E s \in SEATS : /\ state.players[s].status = "folded"
                      /\ state.players[s].totalCommitted > 0
                      /\ s \notin SeqRange(state.pots[1].eligibleSeats)

(* ------------------------ claims: the engine's API -------------------- *)

\* C18 -- getSnapshot returns a defensive copy: no write of the caller to a
\* snapshot changes the engine's state, and while the caller has not written
\* to the snapshot it holds, the snapshot reads as it did when it was
\* returned, whatever applyAction and startNextHand have done since.
C18_SnapshotIsolated ==
  /\ ~snapshot.reached
  /\ (snapshot.held /\ ~snapshot.written) => snapshotRead = snapshot.taken


\* the engine has just been created, and each of the six seats with chips
freshWithSixFunded ==
  /\ state.handId = 1
  /\ actionHistory = <<>>
  /\ \A s \in SEATS : state.players[s].stack + state.players[s].totalCommitted > 0

\* C19 -- hand-1 positions: a freshly created engine with six funded seats
\* starts hand 1 with the dealer at seat 0, the small blind at seat 1 and the
\* big blind at seat 2.
C19_HandOnePositions ==
  freshWithSixFunded =>
    /\ state.dealerSeat = 0
    /\ state.smallBlindSeat = 1
    /\ state.bigBlindSeat = 2


\* the chips the blind_posted events of evts[from..] report for a seat
RECURSIVE blindPosted(_, _, _)
blindPosted(evts, from, seat) ==
  IF from > Len(evts) THEN 0
  ELSE (IF evts[from].type = "blind_posted" /\ evts[from].data.seat = seat
        THEN evts[from].data.amount ELSE 0)
       + blindPosted(evts, from + 1, seat)

\* a step in which startNextHand has started a hand and returned
nextHandStarted ==
  /\ state.phase = "ended"
  /\ state'.handId # state.handId
  /\ startNextHand(engine).error = ""

\* C20 -- startNextHand: while the phase is not ended the call throws and
\* changes nothing; a call that returns has raised handId by exactly 1, left
\* the phase at preflop with an empty board, taken from every stack only the
\* blind the seat posted, and set every seat's totalCommitted to the blind
\* it posted (0 for the other seats).
C20_StartNextHand ==
  /\ [](state.phase # "ended" =>
          /\ startNextHand(engine).error # ""
          /\ startNextHand(engine).engine = engine)
  /\ [][nextHandStarted =>
          /\ state'.handId = state.handId + 1
          /\ state'.phase = "preflop"
          /\ state'.board = <<>>
          /\ \A s \in SEATS :
               /\ state'.players[s].totalCommitted
                    = blindPosted(events', Len(events) + 1, s)
               /\ state'.players[s].stack
                    = state.players[s].stack - blindPosted(events', Len(events) + 1, s)]_vars

\* hand 2 has just been started, no action taken in it yet, both blinds
\* posted by seats with chips
C20_Witness ==
  /\ state.handId = 2
  /\ state.phase = "preflop"
  /\ events[Len(events)].type = "blind_posted"
  /\ state.players[state.smallBlindSeat].totalCommitted > 0
  /\ state.players[state.bigBlindSeat].totalCommitted > 0


(* ------------------------ claims: the event log ----------------------- *)

\* the events of a hand, in the order of the log
handEvents(h) == SelectSeq(events, LAMBDA e : e.handId = h)

\* the events a step has appended
appended == SubSeq(events', Len(events) + 1, Len(events'))

\* the log of a hand starts with hand_started, and hand_ended comes only as
\* its last event
handLogOrdered(h) ==
  handEvents(h) # <<>> =>
    /\ handEvents(h)[1].type = "hand_started"
    /\ \A k \in DOMAIN handEvents(h) :
         handEvents(h)[k].type = "hand_ended" => k = Len(handEvents(h))

\* C21 -- event log ordering: no step changes or removes an entry of the
\* log; a step in which applyAction has taken an action appends action_taken
\* for that action first, before the street_dealt, pot_awarded, hand_summary
\* and hand_ended events the action causes, and appends no second
\* action_taken, while no other step appends one; and for each handId the
\* first event is hand_started and hand_ended occurs at most once, as the
\* last one.
C21_EventLogOrdering ==
  /\ [](\A h \in 1 .. state.handId : handLogOrdered(h))
  /\ [][ /\ Len(events') >= Len(events)
         /\ SubSeq(events', 1, Len(events)) = events
         /\ Cardinality({ k \in DOMAIN appended : appended[k].type = "action_taken" })
              = IF actionHistory' # actionHistory THEN 1 ELSE 0
         /\ actionHistory' # actionHistory =>
              /\ appended[1].type = "action_taken"
              /\ appended[1].handId = state.handId
              /\ appended[1].data.action = actionHistory'[Len(actionHistory')] ]_vars

\* an action has closed the river: its action_taken is followed by
\* pot_awarded, hand_summary and hand_ended
C21_Witness ==
  /\ showdownResolved
  /\ events[Len(events)].type = "hand_ended"
  /\ \E k \in DOMAIN events :
       /\ events[k].type = "action_taken"
       /\ events[k].data.action = actionHistory[Len(actionHistory)]
       /\ events[k + 1].type = "pot_awarded"


(* ------------------ claims: the standalone validator ------------------ *)

\* the keys of the drivers of the highest weight
highestWeightKeys(drivers) ==
  { drivers[i].key : i \in { j \in 1 .. Len(drivers) :
                               \A k \in 1 .. Len(drivers) :
                                 drivers[k].weight <= drivers[j].weight } }

\* the sum of the weights of a list of drivers, in hundredths
RECURSIVE weightSum(_)
weightSum(drivers) ==
  IF drivers = <<>> THEN 0 ELSE Head(drivers).weight + weightSum(Tail(drivers))

\* the decisions the claim has validateDecision accept; weights and
\* confidence are in hundredths
soundDecision(decision) ==
  /\ Len(decision.reason.drivers) >= 2
  /\ \A i \in 1 .. Len(decision.reason.drivers) :
       /\ decision.reason.drivers[i].weight >= 0
       /\ decision.reason.drivers[i].weight <= 100
  /\ weightSum(decision.reason.drivers) >= 80
  /\ weightSum(decision.reason.drivers) <= 120
  /\ decision.confidence >= 0
  /\ decision.confidence <= 100
  /\ trim(decision.reason.line) # ""
  /\ ~(decision.action.type = "FOLD"
         /\ "hand_strength" \in highestWeightKeys(decision.reason.drivers))
  /\ ~(decision.action.type = "RAISE"
         /\ "risk" \in highestWeightKeys(decision.reason.drivers))

\* the decisions the gateway hands to validateDecision for the answers the
\* adapter can settle with
typedDecisions ==
  { validateDecisionSchema(
      normalizeDecisionSchema(parseRawTextAsJson(settled.rawText).parsed)).decision :
      settled \in { s \in AdapterOutcomes :
                      /\ s.kind = "text"
                      /\ parseRawTextAsJson(s.rawText).type # "REJECTED"
                      /\ validateDecisionSchema(
                           normalizeDecisionSchema(
                             parseRawTextAsJson(s.rawText).parsed)).type
                           # "REJECTED" } }

nonEmptyKeys ==
  { c.apiKey : c \in { k \in Credentials : k.present /\ k.apiKey # "" } }

\* the call's parameters with another API key
withApiKey(p, apiKey) ==
  [p EXCEPT !.credential = [p.credential EXCEPT !.apiKey = apiKey]]

\* C23 -- API keys are never logged: nothing the pipeline logs or returns
\* depends on the characters of the API key.  A proposeDecision call with a
\* non-empty key and the same call with any other non-empty key, given the
\* same transport response, write the same lines to the console and return
\* the same result.
C23_KeyNeverLogged ==
  /\ (pc # "idle" /\ adapterCalls = 0 /\ params.credential.present
        /\ params.credential.apiKey # "") =>
       \A apiKey \in nonEmptyKeys :
         /\ proposeDecisionStart(withApiKey(params, apiKey)).pc = pc
         /\ proposeDecisionStart(withApiKey(params, apiKey)).result = result
         /\ logOfStart(withApiKey(params, apiKey)) = logged
  /\ pc = "awaiting" =>
       \A apiKey \in nonEmptyKeys :
         /\ proposeDecisionStart(withApiKey(params, apiKey)).pc = pc
         /\ logOfStart(withApiKey(params, apiKey)) = logged
         /\ \A settled \in AdapterOutcomes :
              /\ proposeDecisionResume(withApiKey(params, apiKey), settled)
                   = proposeDecisionResume(params, settled)
              /\ logOfResume(withApiKey(params, apiKey), settled)
                   = logOfResume(params, settled)


(* ----------------------- claims: hands in progress -------------------- *)

\* C24 -- no stuck hand: getLegalActions returns an empty list exactly when
\* phase = ended; in every reachable state with phase # ended it returns,
\* without throwing, a non-empty list of actions for actionSeat, so a hand
\* in progress can always be continued.
C24_NoStuckHand ==
  /\ state.phase = "ended" => getLegalActions(state) = <<>>
  /\ state.phase # "ended" =>
       /\ ~getLegalActionsThrows(state)
       /\ getLegalActions(state) # <<>>


\* what is left to happen on the street: the chips the active seats can
\* still put in, the active seats, and the active seats that have not acted
\* since the last bet or raise
streetMeasure(st) ==
  100 * SumOver([s \in SEATS |-> IF st.players[s].status = "active"
                                  THEN st.players[s].stack ELSE 0], SEATS)
    + 10 * Cardinality({ s \in SEATS : st.players[s].status = "active" })
    + Cardinality({ s \in SEATS : /\ st.players[s].status = "active"
                                  /\ ~st.hasActedThisRound[s] })

\* the offered actions that move no chips: a check, or a bet to what the
\* seat has already put in on the street
idleActions(st) ==
  { action \in { Action(st.actionSeat, "check", null),
                 Action(st.actionSeat, "bet", st.betThisRound[st.actionSeat]) } :
      offered(st, action) }

\* whether at most n accepted actions that move no chips lead from st back
\* to target
RECURSIVE comesBackTo(_, _, _)
comesBackTo(st, target, n) ==
  /\ n > 0
  /\ st.phase # "ended"
  /\ \E action \in idleActions(st) :
       \E out \in {applyAction(Engine(st, <<>>, <<>>), action, weakest)} :
         /\ out.error = ""
         /\ \/ out.engine.state = target
            \/ /\ out.engine.state.phase = target.phase
               /\ comesBackTo(out.engine.state, target, n - 1)

\* C25 -- every hand terminates: every sequence of accepted actions reaches
\* phase = ended after a bounded number of actions, and no infinite sequence
\* of legal actions keeps a hand on the same street.  An accepted action
\* that stays on the street leaves strictly less to happen on it, and no
\* round of accepted actions brings the engine back to the state it was in.
C25_HandsTerminate ==
  /\ [](state.phase # "ended" => ~comesBackTo(state, state, SEAT_COUNT))
  /\ [][ ( /\ actionHistory' # actionHistory
           /\ state'.handId = state.handId
           /\ state'.phase = state.phase )
         => streetMeasure(state') < streetMeasure(state) ]_vars


\* C26 -- the action-seat invariant: in every reachable state with
\* phase # ended, actionSeat designates a seat whose status is active
\* (never folded, all_in or out).
C26_ActionSeatActive ==
  state.phase # "ended" => state.players[state.actionSeat].status = "active"


\* C27 -- showdown is always evaluable: whenever a hand is resolved by
\* showdown, every seat eligible for a pot holds exactly 2 hole cards and
\* the board holds exactly 5 cards, so evaluate7 is always called with 7
\* cards and never throws; in particular a seat that went all-in by posting
\* a blind has hole cards.
C27_ShowdownEvaluable ==
  /\ state.phase # "ended" =>
       \A s \in SEATS :
         state.players[s].status \in {"active", "all_in"} =>
           Len(state.players[s].holeCards) = 2
  /\ \A action \in ActionInputs(state) :
       applyAction(engine, action, weakest).error
         # "evaluate7 requires exactly 7 cards."


\* the seats that began the current hand with stack 0
beganEmpty(st) ==
  { s \in SEATS : st.players[s].stack = 0 /\ st.players[s].totalCommitted = 0 }

\* an out seat is out of the hand; state.pots holds the pots of the hand once
\* the hand has ended
outOfHand(st, s) ==
  /\ st.players[s].status = "out"
  /\ st.players[s].holeCards = <<>>
  /\ st.phase # "ended" => st.actionSeat # s
  /\ st.phase = "ended" =>
       \A k \in 1 .. Len(st.pots) : s \notin SeqRange(st.pots[k].eligibleSeats)

\* C28 -- out and folded seats stay out of the hand: a seat that begins a
\* hand with stack 0 keeps status out for the whole hand (it is charged no
\* blind, gets no hole cards, never becomes actionSeat and is never
\* eligible for a pot), and a seat that has folded never becomes actionSeat
\* again and never receives chips in that hand.
C28_OutAndFoldedStayOut ==
  /\ [](\A s \in beganEmpty(state) :
         /\ outOfHand(state, s)
         /\ \A k \in 1 .. Len(events) :
              ~(/\ events[k].handId = state.handId
                /\ events[k].type = "blind_posted"
                /\ events[k].data.seat = s))
  /\ [](state.phase # "ended" =>
          state.players[state.actionSeat].status # "folded")
  /\ [][ \A s \in SEATS :
           (state.players[s].status = "folded" /\ state'.handId = state.handId)
             => /\ state'.players[s].status = "folded"
                /\ state'.players[s].stack = state.players[s].stack ]_vars


(* -------------------- claims: the betting round ----------------------- *)

\* the action a step of applyAction has taken, and whether the call returned
actionTaken == actionHistory'[Len(actionHistory')]

actionAccepted ==
  /\ actionHistory' # actionHistory
  /\ applyAction(engine, actionTaken, weakest).error = ""

\* the state the action leaves for advanceAfterAction
actionApplied == applyPlayerAction(state, actionTaken)

\* every player that is neither folded nor out is all_in and marked acted,
\* or active with betThisRound = currentBet and marked acted
roundDone(st) ==
  \A s \in SEATS :
    st.players[s].status \notin {"folded", "out"} =>
      /\ st.hasActedThisRound[s]
      /\ st.players[s].status = "active" => st.betThisRound[s] = st.currentBet

\* the street was advanced or the hand resolved
movedOn == state'.phase # state.phase

\* C29 (as stated) -- round completion gates street advancement: after an
\* accepted action the engine advances the street (or resolves the hand)
\* exactly when every non-folded, non-out player is either all_in and marked
\* acted, or active with betThisRound = currentBet and marked acted.
C29_AsStated ==
  [][actionAccepted => (movedOn <=> roundDone(actionApplied))]_vars

\* C29 -- round completion gates street advancement: after an accepted
\* action the engine advances the street (or resolves the hand) exactly when
\* at most one player is left that has not folded, or every non-folded,
\* non-out player is either all_in and marked acted, or active with
\* betThisRound = currentBet and marked acted; it never deals the next
\* street while some active player has not acted since the last bet/raise
\* or has not matched currentBet, and otherwise it passes the action to the
\* next active seat clockwise.
C29_RoundCompletionGates ==
  /\ [][actionAccepted =>
          (movedOn <=> \/ countEligiblePlayers(actionApplied.players) <= 1
                       \/ roundDone(actionApplied))]_vars
  /\ [][(actionHistory' # actionHistory /\ state'.board # state.board)
          => roundDone(actionApplied)]_vars
  /\ [][(actionAccepted /\ ~movedOn) =>
          /\ state'.board = state.board
          /\ state'.actionSeat
               = firstActiveFrom(actionApplied, nextSeat(state.actionSeat))]_vars

\* a call has just completed the preflop round and the flop is dealt, on a
\* run of offered actions
C29_Witness ==
  /\ legalRun
  /\ state.phase = "flop"
  /\ Len(state.board) = 3
  /\ events[Len(events)].type = "street_dealt"
  /\ events[Len(events) - 1].type = "action_taken"
  /\ events[Len(events) - 1].data.action.type = "call"
  /\ Cardinality({ s \in SEATS : state.players[s].status = "active" }) >= 2


\* a step of applyAction that took a raise, and whether the raise was full
raiseTaken == actionHistory' # actionHistory /\ actionTaken.type = "raise"

fullRaise == actionTaken.amount >= state.minRaiseTo

otherActive(st, actorSeat) ==
  { s \in SEATS \ {actorSeat} : st.players[s].status = "active" }

\* what the claim says of a full raise
fullRaiseReopens ==
  /\ actionApplied.lastRaiseSize = actionTaken.amount - state.currentBet
  /\ actionApplied.minRaiseTo = actionTaken.amount + actionApplied.lastRaiseSize
  /\ \A s \in otherActive(actionApplied, state.actionSeat) :
       ~actionApplied.hasActedThisRound[s]

\* what a short raise leaves alone, and what it does to the actor
shortRaiseKeeps ==
  /\ actionApplied.players[state.actionSeat].stack = 0
  /\ \A s \in SEATS \ {state.actionSeat} :
       actionApplied.canRaise[s] = state.canRaise[s]
  /\ actionApplied.lastRaiseSize = state.lastRaiseSize
  /\ actionApplied.minRaiseTo = state.minRaiseTo
  /\ ~actionApplied.canRaise[state.actionSeat]

\* the state the step leaves is the one the raise left, but for what
\* advanceAfterAction does when the street stays the same: the next seat
raiseObserved ==
  state'.phase = state.phase =>
    state' = [actionApplied EXCEPT !.actionSeat = state'.actionSeat]

streetOpened ==
  CHOOSE k \in 1 .. Len(events) :
    /\ events[k].handId = state.handId
    /\ events[k].type \in {"hand_started", "street_dealt"}
    /\ \A j \in (k + 1) .. Len(events) :
         events[j].type \notin {"hand_started", "street_dealt"}

\* the bet to match and the minimum raise when the street opened, and nobody
\* yet barred from raising; preflop the bet is what the big blind posted
streetOpening ==
  IF events[streetOpened].type = "hand_started"
  THEN [ currentBet |-> events[streetOpened + 2].data.amount,
         minRaiseTo |-> events[streetOpened + 2].data.amount + config.bigBlind,
         closed |-> {} ]
  ELSE [currentBet |-> 0, minRaiseTo |-> config.bigBlind, closed |-> {}]

\* the street after one more action: a bet or raise to minRaiseTo or more
\* re-opens the raise for every other seat, and any other action bars its
\* actor until such a bet or raise comes
streetAfter(track, action) ==
  IF action.type \in {"bet", "raise"} /\ action.amount >= track.minRaiseTo
  THEN [ currentBet |-> action.amount,
         minRaiseTo |-> action.amount + (action.amount - track.currentBet),
         closed |-> {action.actor} ]
  ELSE [ currentBet |-> IF action.type \in {"bet", "raise"}
                        THEN Max2(track.currentBet, action.amount)
                        ELSE track.currentBet,
         minRaiseTo |-> track.minRaiseTo,
         closed |-> track.closed \cup {action.actor} ]

\* the street up to events[k]
RECURSIVE streetUpTo(_)
streetUpTo(k) ==
  IF k <= streetOpened THEN streetOpening
  ELSE IF events[k].type = "action_taken"
  THEN streetAfter(streetUpTo(k - 1), events[k].data.action)
  ELSE streetUpTo(k - 1)

\* C31 -- the re-raise right: a player who has already acted on the current
\* street is offered RAISE again only if another player has made a full bet
\* or raise (raiseTo >= minRaiseTo) since that player's last action; a short
\* all-in raise never gives a player who has already bet, raised or called
\* on that street the right to raise.
C31_ReRaiseRight ==
  (/\ state.phase \in {"preflop", "flop", "turn", "river"}
   /\ ~getLegalActionsThrows(state)
   /\ state.actionSeat \in streetUpTo(Len(events)).closed)
    => ~hasLegal(getLegalActions(state), "raise")


(* --------------------- claims: bets, pots and chips ------------------- *)

\* C32 -- in every reachable state with phase in {preflop, flop, turn,
\* river}, betThisRound[seat] <= currentBet for every seat whose status is
\* active or all_in.
C32_BetWithinCurrentBet ==
  state.phase \in {"preflop", "flop", "turn", "river"} =>
    \A s \in SEATS :
      state.players[s].status \in {"active", "all_in"} =>
        state.betThisRound[s] <= state.currentBet


\* the chips in state.pots, and the chips the seats have committed
potsTotal(st) ==
  SumOver([k \in 1 .. Len(st.pots) |-> st.pots[k].amount], 1 .. Len(st.pots))

committedTotal(st) ==
  SumOver([s \in SEATS |-> st.players[s].totalCommitted], SEATS)

\* C33 -- the pots invariant: after every transition (hand setup, each
\* accepted applyAction, pot award) the amounts in state.pots sum to the sum
\* of all seats' totalCommitted.
C33_PotsMatchCommitted == potsTotal(state) = committedTotal(state)


\* the pot_awarded events of the hand in progress that pay pot number
\* potIndex; the single award of an uncontested hand names no pot and pays
\* pot 0
awardsOfPot(potIndex) ==
  { k \in 1 .. Len(events) :
      /\ events[k].type = "pot_awarded"
      /\ events[k].handId = state.handId
      /\ IF "potIndex" \in DOMAIN events[k].data
         THEN events[k].data.potIndex = potIndex
         ELSE potIndex = 0 }

awardedOfPot(potIndex) ==
  SumOver([k \in awardsOfPot(potIndex) |-> events[k].data.amount],
          awardsOfPot(potIndex))

\* C34 -- settlement pays out exactly what was committed: when a hand
\* reaches phase = ended, the six stacks sum to what they summed to before
\* that hand's blinds were posted, and every computed pot has an eligible
\* seat and is paid in full.
C34_SettlementPaysCommitted ==
  state.phase = "ended" =>
    /\ stackTotal(state) = preHandTotal
    /\ \A k \in 1 .. Len(state.pots) :
         /\ state.pots[k].eligibleSeats # <<>>
         /\ awardsOfPot(k - 1) # {}
         /\ awardedOfPot(k - 1) = state.pots[k].amount

\* a hand settled at showdown over a main pot and a side pot, one of them
\* split between two seats
C34_Witness ==
  /\ state.phase = "ended"
  /\ Len(state.pots) >= 2
  /\ \E k \in 1 .. Len(state.pots) : Cardinality(awardsOfPot(k - 1)) >= 2


(* ------------------------ claims: the streets -------------------------- *)

\* the board and the burn pile of each betting street
boardOfStreet ==
  /\ state.phase = "preflop" => Len(state.board) = 0 /\ Len(state.burn) = 0
  /\ state.phase = "flop" => Len(state.board) = 3 /\ Len(state.burn) = 1
  /\ state.phase = "turn" => Len(state.board) = 4 /\ Len(state.burn) = 2
  /\ state.phase = "river" => Len(state.board) = 5 /\ Len(state.burn) = 3

\* a change of phase within a hand.  A call of applyAction that completes
\* the river round passes through showdown and, unless the showdown throws,
\* returns with phase = ended
phaseStep ==
  (state'.phase # state.phase /\ state'.handId = state.handId) =>
    \/ <<state.phase, state'.phase>> \in
         { <<"preflop", "flop">>, <<"flop", "turn">>, <<"turn", "river">>,
           <<"river", "showdown">>, <<"showdown", "ended">> }
    \/ state.phase = "river" /\ state'.phase = "ended"
    \/ state'.phase = "ended" /\ countEligiblePlayers(state'.players) <= 1

\* C35 -- phase order: within a hand, phase moves only along preflop, flop,
\* turn, river, showdown, ended, or jumps directly to ended when at most one
\* non-folded, non-out player remains; it never moves backwards or skips a
\* street, and the board holds exactly 0, 3, 4 and 5 cards in preflop, flop,
\* turn and river, with exactly one card burned per street dealt.
C35_PhaseOrder ==
  /\ []boardOfStreet
  /\ [][phaseStep]_vars
  /\ [][state'.handId # state.handId =>
          state.phase = "ended" /\ state'.phase = "preflop"]_vars

\* a hand that went through every street to its showdown and ended
C35_Witness ==
  /\ state.phase = "ended"
  /\ Len(state.board) = 5
  /\ Len(state.burn) = 3
  /\ events[Len(events) - 1].type = "hand_summary"
  /\ Cardinality({ k \in 1 .. Len(events) :
                     events[k].type = "street_dealt"
                     /\ events[k].handId = state.handId }) = 3


(* ---------------------- claims: the uncontested pot ------------------- *)

\* exactly one player is neither folded nor out, and that player
soleSurvivor(st) == countEligiblePlayers(st.players) = 1

theSurvivor(st) ==
  CHOOSE s \in SEATS : st.players[s].status \notin {"folded", "out"}

\* C36 -- the uncontested pot: whenever an accepted action leaves exactly
\* one player who is neither folded nor out, the hand ends at once: that
\* player's stack grows by the sum of all seats' totalCommitted, exactly one
\* pot_awarded event is emitted, no hand is evaluated and no hand_summary is
\* emitted, and phase = ended.
C36_UncontestedPot ==
  [][(actionAccepted /\ soleSurvivor(actionApplied)) =>
       /\ state'.phase = "ended"
       /\ state'.players[theSurvivor(actionApplied)].stack
            = actionApplied.players[theSurvivor(actionApplied)].stack
                + committedTotal(actionApplied)
       /\ \A s \in SEATS \ {theSurvivor(actionApplied)} :
            state'.players[s].stack = actionApplied.players[s].stack
       /\ Len(events') = Len(events) + 3
       /\ events'[Len(events) + 1].type = "action_taken"
       /\ events'[Len(events) + 2].type = "pot_awarded"
       /\ events'[Len(events) + 2].data
            = [seat |-> theSurvivor(actionApplied),
               amount |-> committedTotal(actionApplied)]
       /\ events'[Len(events) + 3].type = "hand_ended"]_vars

\* a fold on the flop has left one player in, who took the pot
C36_Witness ==
  /\ state.phase = "ended"
  /\ soleSurvivor(state)
  /\ Len(state.board) = 3
  /\ events[Len(events) - 2].type = "action_taken"
  /\ events[Len(events) - 2].data.action.type = "fold"
  /\ events[Len(events) - 1].type = "pot_awarded"
  /\ state.players[theSurvivor(state)].stack > committedTotal(state)


(* -------------------- claims: action preconditions -------------------- *)

\* the action breaks a precondition of applyAction in the state
breaksPrecondition(st, action) ==
  LET seat == st.actionSeat
      toCall == Max2(0, st.currentBet - st.betThisRound[seat])
      allIn == st.betThisRound[seat] + st.players[seat].stack
  IN \/ st.phase = "ended"
     \/ action.actor # seat
     \/ action.type \in {"fold", "raise"} /\ toCall = 0
     \/ action.type \in {"check", "bet"} /\ toCall > 0
     \/ /\ action.type = "bet"
        /\ action.amount # null
        /\ \/ action.amount > allIn
           \/ action.amount < config.bigBlind /\ action.amount # allIn
     \/ /\ action.type = "raise"
        /\ action.amount # null
        /\ \/ action.amount <= st.currentBet
           \/ action.amount > allIn
           \/ action.amount < st.minRaiseTo /\ action.amount # allIn

\* C37 -- action preconditions: applyAction throws, leaving the state
\* unchanged, for an actor other than actionSeat; for FOLD or RAISE when
\* toCall = 0; for CHECK or BET when toCall > 0; for a BET that exceeds
\* stack + betThisRound or is below the big blind without being all-in; for
\* a RAISE that is not above currentBet, exceeds the all-in ceiling, or is
\* below minRaiseTo without being all-in; and for any action once
\* phase = ended.
C37_ActionPreconditions ==
  \A action \in ActionInputs(state) :
    breaksPrecondition(state, action) =>
      /\ applyAction(engine, action, weakest).error # ""
      /\ applyAction(engine, action, weakest).engine = engine

\* a seat facing a bet, after another seat has acted, with chips for more
\* than the minimum raise: a check, a bet and a raise that break a
\* precondition are among the inputs and all are refused
C37_Witness ==
  /\ state.phase # "ended"
  /\ actionHistory # <<>>
  /\ state.currentBet > state.betThisRound[state.actionSeat]
  /\ state.minRaiseTo
       < state.betThisRound[state.actionSeat] + state.players[state.actionSeat].stack
  /\ \A type \in {"check", "bet", "raise"} :
       \E action \in ActionInputs(state) :
         /\ action.type = type
         /\ action.actor = state.actionSeat
         /\ type # "check" => action.amount # null
         /\ breaksPrecondition(state, action)
         /\ applyAction(engine, action, weakest).error # ""


(* ---------------------- claims: the sanity layer ---------------------- *)

\* the answers of the adapter that parse and pass schema validation, and
\* the decision schema validation returns for one
validatedAnswers ==
  { s \in AdapterOutcomes :
      /\ s.kind = "text"
      /\ parseRawTextAsJson(s.rawText).type # "REJECTED"
      /\ validateDecisionSchema(
           normalizeDecisionSchema(parseRawTextAsJson(s.rawText).parsed)).type
           # "REJECTED" }

typedDecisionOf(settled) ==
  validateDecisionSchema(
    normalizeDecisionSchema(parseRawTextAsJson(settled.rawText).parsed)).decision

\* the proposal passes the authority check and the legality check
passesGate(p, decision) ==
  enforceSemanticGate(decision.action, p.legal_actions,
                      getPresetById(p.presetId).capability).valid

\* C38 -- the sanity layer is advisory in the live pipeline: a proposal that
\* passes schema validation, the authority check and the legality check is
\* ACCEPTED by proposeDecision even when it fails a semantic-sanity rule
\* (fewer than 2 drivers, a weight outside [0,1], weight sum outside the
\* tolerance band, confidence outside [0,1], empty reason.line, RAISE
\* top-driven by risk); such a failure never changes the outcome.
C38_SanityAdvisory ==
  pc = "awaiting" =>
    \A settled \in validatedAnswers :
      passesGate(params, typedDecisionOf(settled)) =>
        proposeDecisionResume(params, settled).type = "ACCEPTED"


(* ---------------------- claims: gate and engine ----------------------- *)

\* the actions a model can propose to the gate
gateProposals ==
  { [type |-> type, amount |-> amount] :
      type \in {"FOLD", "CALL", "RAISE"},
      amount \in {undefined} \cup (0 .. MaxAmount) }

\* the engine action the page executes an accepted proposal as, for the
\* action seat
executedAs(st, proposedAction) ==
  LET exec == resolveLlmDecision([action |-> proposedAction], getLegalActions(st))
  IN Action(st.actionSeat, exec.action.type,
            IF exec.action.amount = undefined THEN null ELSE exec.action.amount)

\* the gate accepts the proposal against the list getLegalActions() returns
gateAccepts(st, proposedAction, capability) ==
  /\ ~getLegalActionsThrows(st)
  /\ enforceSemanticGate(proposedAction, getLegalActions(st), capability).valid

capabilityLevels == {"L1_BASIC", "L2_STANDARD", "L3_EXPERIMENTAL"}

\* C39 -- gate-to-engine soundness: any proposal accepted by the gate
\* against the list returned by getLegalActions() in some engine state, once
\* mapped to its concrete action (CALL to check if check is legal, else
\* call; RAISE to bet if bet is legal, else raise, with the proposed
\* amount), is accepted by applyAction for the action seat in that same
\* state.
C39_GateToEngine ==
  \A proposedAction \in gateProposals :
    \A capability \in capabilityLevels :
      gateAccepts(state, proposedAction, capability) =>
        /\ resolveLlmDecision([action |-> proposedAction],
                              getLegalActions(state)).ok
        /\ \A strength \in Strengths(engine, executedAs(state, proposedAction)) :
             applyAction(engine, executedAs(state, proposedAction),
                         strength).error = ""


(* ------------------- claims: the chips an action moves ---------------- *)

\* a step of applyAction that took and accepted a bet or a raise
wagerAccepted == actionAccepted /\ actionTaken.type \in {"bet", "raise"}

\* no stack, betThisRound or totalCommitted is negative
chipsNonNegative(st) ==
  \A s \in SEATS :
    /\ st.players[s].stack >= 0
    /\ st.betThisRound[s] >= 0
    /\ st.players[s].totalCommitted >= 0

\* C40 -- every accepted BET or RAISE strictly increases currentBet and
\* moves a strictly positive number of chips from the actor's stack into
\* totalCommitted, and no accepted action ever makes a stack, betThisRound
\* or totalCommitted negative.
C40_WagersMoveChips ==
  /\ [][wagerAccepted =>
          /\ actionApplied.currentBet > state.currentBet
          /\ actionApplied.players[actionTaken.actor].stack
               < state.players[actionTaken.actor].stack
          /\ actionApplied.players[actionTaken.actor].totalCommitted
               - state.players[actionTaken.actor].totalCommitted
               = state.players[actionTaken.actor].stack
                   - actionApplied.players[actionTaken.actor].stack]_vars
  /\ [][actionAccepted =>
          chipsNonNegative(actionApplied) /\ chipsNonNegative(state')]_vars

====
